---- MODULE Spec2Model ----
(***************************************************************************)
(* Prediction pipeline of the Telegram predictor bot: the tiered           *)
(* orchestrator predictMatch (ai/predictor.js), the history backfill       *)
(* hydrateMatchHistory, the ingestion calls fetchTeamHistory and           *)
(* fetchHeadToHeadHistory (api/apiHandler.js), the response normalizer     *)
(* and the rule-based predictor.                                           *)
(*                                                                         *)
(* Numbers.  A JavaScript number is modelled as a tagged value: a finite   *)
(* number carries an integer v that counts thousandths (v = 500 is 0.5),   *)
(* and +Infinity, -Infinity and NaN are their own tags.  All arithmetic    *)
(* is exact on the thousandths; round() yields hundredths, i.e. a          *)
(* multiple of 10.  Binary floating point rounding error is not modelled.  *)
(*                                                                         *)
(* Contest ids.  An id is the pair [q, r] that stands for                  *)
(* q * 5,000,000,000 + r with 0 <= r < 5,000,000,000, so that adding or    *)
(* subtracting a sport offset is exact although the offset exceeds the     *)
(* range of the model checker's integers.                                  *)
(***************************************************************************)
EXTENDS Integers, Sequences, FiniteSets, TLC

\* ------------------------------------------------------------------------
\* Bounds of the model
\* ------------------------------------------------------------------------
MaxRequests == 2      \* prediction requests served by one process
MaxProbInput == 2     \* finite probability inputs range over -2..2 thousandths
MaxFixtures == 11     \* earlier fixtures of one team inside the 365-day window

\* ------------------------------------------------------------------------
\* JavaScript values
\* ------------------------------------------------------------------------
JS(tag, val, str) == [t |-> tag, v |-> val, s |-> str]

Undef == JS("undef", 0, "")
Null == JS("null", 0, "")
NaNv == JS("nan", 0, "")
PosInf == JS("inf", 0, "")
NegInf == JS("ninf", 0, "")
Num(n) == JS("num", n, "")
NumStr(n) == JS("numstr", n, "")     \* a string such as "0.5"
InfStr == JS("infstr", 0, "")        \* the string "Infinity"
Text(str) == JS("text", 0, str)      \* any other string

IsNumber(x) == x.t \in {"num", "inf", "ninf", "nan"}
IsFinite(x) == x.t = "num"
IsNullish(x) == x.t \in {"undef", "null"}

\* JavaScript truthiness of a value.
Truthy(x) ==
  CASE x.t \in {"undef", "null", "nan"} -> FALSE
    [] x.t = "num" -> x.v # 0
    [] x.t = "text" -> x.s # ""
    [] OTHER -> TRUE

\* a ?? b
Coalesce(a, b) == IF IsNullish(a) THEN b ELSE a

\* toNumber(value): the value itself for a number that is not NaN, else
\* Number(value), with NaN mapped to null.
toNumber(x) ==
  CASE x.t \in {"num", "inf", "ninf"} -> x
    [] x.t = "numstr" -> Num(x.v)
    [] x.t = "infstr" -> PosInf
    [] x.t = "null" -> Num(0)
    [] x.t = "text" -> IF x.s = "" THEN Num(0) ELSE Null
    [] OTHER -> Null

\* a + b on JavaScript numbers.
Add(a, b) ==
  CASE a.t = "nan" \/ b.t = "nan" -> NaNv
    [] a.t = "inf" -> IF b.t = "ninf" THEN NaNv ELSE PosInf
    [] a.t = "ninf" -> IF b.t = "inf" THEN NaNv ELSE NegInf
    [] b.t = "inf" -> PosInf
    [] b.t = "ninf" -> NegInf
    [] OTHER -> Num(a.v + b.v)

\* round(value) = Math.round(value * 100) / 100: the nearest hundredth, a
\* half rounding towards +Infinity.
round(x) ==
  IF x.t = "num" THEN Num(10 * ((x.v + 5) \div 10)) ELSE x

\* round(a / total) for a total that passed the guard of normalizePrediction
\* (a positive finite number or +Infinity).
roundRatio(a, total) ==
  CASE a.t = "nan" \/ total.t = "nan" -> NaNv
    [] total.t = "inf" -> IF a.t = "num" THEN Num(0) ELSE NaNv
    [] a.t = "inf" -> PosInf
    [] a.t = "ninf" -> NegInf
    [] OTHER -> Num(10 * ((200 * a.v + total.v) \div (2 * total.v)))

\* !total || total <= 0
TotalRejected(total) ==
  \/ total.t = "nan"
  \/ total.t = "ninf"
  \/ total.t = "num" /\ total.v <= 0

\* ------------------------------------------------------------------------
\* Generator payloads
\* ------------------------------------------------------------------------
\* The probabilities member of a payload object: absent, null, an object
\* with home/draw/away, or some other truthy value without these members.
Probs(h, d, a) == [t |-> "obj", home |-> h, draw |-> d, away |-> a]
NoProbs(tag) == [t |-> tag, home |-> Undef, draw |-> Undef, away |-> Undef]

\* The betting_advice member of a payload object.
Advice(rec, conf, why) ==
  [t |-> "obj", recommendation |-> rec, confidence |-> conf, reasoning |-> why]
NoAdvice(tag) ==
  [t |-> tag, recommendation |-> Undef, confidence |-> Undef, reasoning |-> Undef]

\* A parsed payload object.
Obj(mid, pred, probs, expl, adv, eng) ==
  [match_id |-> mid, prediction |-> pred, probabilities |-> probs,
   explanation |-> expl, betting_advice |-> adv, engine |-> eng]

Id(q, r) == [q |-> q, r |-> r]
NoId == Id(0, 0)

\* payload.probabilities ?? {}
ProbsOrEmpty(p) == IF p.t \in {"undef", "null"} THEN NoProbs("obj") ELSE p
\* payload.betting_advice ?? {}
AdviceOrEmpty(a) == IF a.t \in {"undef", "null"} THEN NoAdvice("obj") ELSE a

NoPrediction == [kind |-> "null"]

\* normalizePrediction(payload, matchId) for a payload that is an object.
normalizeObject(payload, matchId) ==
  LET probs == ProbsOrEmpty(payload.probabilities)
      probHome == toNumber(probs.home)
      probDraw == toNumber(probs.draw)
      probAway == toNumber(probs.away)
      total == Add(Add(probHome, probDraw), probAway)
      bettingAdvice == AdviceOrEmpty(payload.betting_advice)
      confidenceValue == toNumber(bettingAdvice.confidence)
      safeConfidence == IF confidenceValue = Null THEN Num(0)
                        ELSE round(confidenceValue)
  IN  IF probHome = Null \/ probDraw = Null \/ probAway = Null
      THEN NoPrediction
      ELSE IF TotalRejected(total)
      THEN NoPrediction
      ELSE [kind |-> "prediction",
            match_id |-> IF IsNullish(payload.match_id)
                         THEN [declared |-> FALSE, id |-> matchId, val |-> Undef]
                         ELSE [declared |-> TRUE, id |-> NoId,
                               val |-> payload.match_id],
            prediction |-> Coalesce(payload.prediction, Text("Unentschieden")),
            probabilities |-> [home |-> roundRatio(probHome, total),
                               draw |-> roundRatio(probDraw, total),
                               away |-> roundRatio(probAway, total)],
            explanation |-> Coalesce(payload.explanation,
                                     Text("Keine Erklaerung vorhanden.")),
            betting_advice |->
              [recommendation |-> Coalesce(bettingAdvice.recommendation,
                                           Text("Keine Empfehlung")),
               confidence |-> safeConfidence,
               reasoning |-> Coalesce(bettingAdvice.reasoning,
                                      Text("Keine Begruendung vorhanden."))],
            engine |-> Undef]

\* A value handed to normalizePrediction: null, a scalar that is not an
\* object (number, string, boolean), or an object.
ParsedNull == [kind |-> "null"]
ParsedScalar == [kind |-> "scalar"]
ParsedObj(o) == [kind |-> "object", obj |-> o]

\* normalizePrediction(payload, matchId)
normalizePrediction(payload, matchId) ==
  IF payload.kind # "object" THEN NoPrediction
  ELSE normalizeObject(payload.obj, matchId)

\* ------------------------------------------------------------------------
\* Raw generator output and normalizeIncomingPayload
\* ------------------------------------------------------------------------
\* A string is modelled by what extractJson and JSON.parse make of it:
\*   "garbage"  no {...} span and not JSON at all
\*   "json"     holds a {...} span that JSON.parse accepts (body is its value)
\*   "repair"   holds a {...} span that parses only after the repair pass
\*   "broken"   holds a {...} span that does not parse even after the repair
\*   "scalar"   no {...} span, but the whole string is the JSON of a truthy
\*              scalar (a number, a quoted string, true)
EmptyObj == Obj(Undef, Undef, NoProbs("undef"), Undef, NoAdvice("undef"), Undef)

RawNull == [kind |-> "null", form |-> "", obj |-> EmptyObj,
            texts |-> <<>>, arrays |-> <<>>]
RawAbsent == [kind |-> "absent", form |-> "", obj |-> EmptyObj,
              texts |-> <<>>, arrays |-> <<>>]
RawOther == [kind |-> "other", form |-> "", obj |-> EmptyObj,
             texts |-> <<>>, arrays |-> <<>>]
RawText(form, o) == [kind |-> "text", form |-> form, obj |-> o,
                     texts |-> <<>>, arrays |-> <<>>]
\* An object with its own members o, the members response, completion,
\* output, text (in this order) in texts and the members results,
\* generations, choices in arrays; a member that is missing is RawAbsent,
\* respectively the array <<RawAbsent>>.
RawObject(o, texts, arrays) ==
  [kind |-> "object", form |-> "", obj |-> o, texts |-> texts, arrays |-> arrays]
NoTexts == <<RawAbsent, RawAbsent, RawAbsent, RawAbsent>>
NoArray == <<RawAbsent>>
NoArrays == <<NoArray, NoArray, NoArray>>

\* extractJson(text)
extractJson(raw) ==
  IF raw.form \in {"json", "repair"} THEN ParsedObj(raw.obj) ELSE ParsedNull

\* parseJsonSafe(value)
parseJsonSafe(raw) ==
  CASE raw.form = "json" -> ParsedObj(raw.obj)
    [] raw.form = "scalar" -> ParsedScalar
    [] OTHER -> ParsedNull

ProbsTruthy(p) == p.t \notin {"undef", "null"}

RECURSIVE normalizeIncomingPayload(_)
RECURSIVE FirstParsed(_, _, _)

\* The first truthy normalizeIncomingPayload(entries[i]) for i >= from, where
\* stringsOnly restricts the search to entries that are strings.
FirstParsed(entries, from, stringsOnly) ==
  IF from > Len(entries) THEN ParsedNull
  ELSE LET entry == entries[from]
           parsed == IF stringsOnly /\ entry.kind # "text" THEN ParsedNull
                     ELSE IF entry.kind = "absent" THEN ParsedNull
                     ELSE normalizeIncomingPayload(entry)
       IN  IF parsed.kind # "null" THEN parsed
           ELSE FirstParsed(entries, from + 1, stringsOnly)

\* The entries of the array members, concatenated in the order of arrayKeys.
ArrayEntries(arrays) ==
  IF Len(arrays) = 0 THEN <<>> ELSE arrays[1] \o arrays[2] \o arrays[3]

normalizeIncomingPayload(raw) ==
  CASE raw.kind \in {"null", "absent", "other"} -> ParsedNull
    [] raw.kind = "text" ->
         LET ej == extractJson(raw)
         IN  IF ej.kind # "null" THEN ej ELSE parseJsonSafe(raw)
    [] OTHER ->
         IF Truthy(raw.obj.prediction) /\ ProbsTruthy(raw.obj.probabilities)
         THEN ParsedObj(raw.obj)
         ELSE LET fromText == FirstParsed(raw.texts, 1, TRUE)
                  fromArray == FirstParsed(ArrayEntries(raw.arrays), 1, FALSE)
              IN  IF fromText.kind # "null" THEN fromText
                  ELSE IF fromArray.kind # "null" THEN fromArray
                  ELSE IF Truthy(raw.obj.match_id)
                          \/ ProbsTruthy(raw.obj.probabilities)
                  THEN ParsedObj(raw.obj)
                  ELSE ParsedNull

\* typeof parsed.engine === 'string' ? parsed.engine : 'llama'
remoteEngine(parsed) ==
  IF parsed.kind = "object" /\ parsed.obj.engine.t \in {"text", "numstr", "infstr"}
  THEN parsed.obj.engine
  ELSE Text("llama")

\* ------------------------------------------------------------------------
\* Rule-based predictor
\* ------------------------------------------------------------------------
Min(a, b) == IF a < b THEN a ELSE b
Max(a, b) == IF a > b THEN a ELSE b
Abs(a) == IF a < 0 THEN -a ELSE a

\* clamp without its lower bound.
clampUpperOnly(lo, hi, value) == Min(hi, value)

\* clamp(min, max, value)
clamp(lo, hi, value) == Max(lo, Min(hi, value))

drawLabel(sport) == "Unentschieden"

\* simpleRulePredict with inclusive thresholds (score >= 0.3, score <= -0.3).
simpleRulePredictInclusive(match, features, j1, j2, j3) ==
  LET score == (features.home_form - features.away_form)
               + (features.home_goals_avg - features.away_goals_avg)
      sport == match.sport
      prediction == IF score >= 300 THEN "Heimsieg"
                    ELSE IF score <= -300 THEN "Auswaertssieg"
                    ELSE drawLabel(sport)
      recommendation == IF score >= 300 THEN "Heimsieg"
                        ELSE IF score <= -300 THEN "Auswaertssieg"
                        ELSE IF sport = "basketball" THEN "Spread meiden"
                        ELSE "Unter 2.5 Tore"
      confidence == IF score >= 300 \/ score <= -300
                    THEN Min(850, 500 + Abs(score))
                    ELSE 600
      probHome == clamp(100, 800, 500 + score + j1)
      probAway == clamp(100, 800, 500 - score + j2)
      probDraw == clamp(50, 600, 200 + j3)
      total == probHome + probAway + probDraw
  IN  [kind |-> "prediction",
       match_id |-> [declared |-> FALSE, id |-> match.match_id, val |-> Undef],
       prediction |-> Text(prediction),
       probabilities |-> [home |-> roundRatio(Num(probHome), Num(total)),
                          draw |-> roundRatio(Num(probDraw), Num(total)),
                          away |-> roundRatio(Num(probAway), Num(total))],
       explanation |-> Text("Regelbasiertes Modell"),
       betting_advice |-> [recommendation |-> Text(recommendation),
                           confidence |-> round(Num(confidence)),
                           reasoning |-> Text("Basierend auf Form")],
       engine |-> Text("rule-based")]

\* simpleRulePredict with the first jitter draw added to the score before
\* the outcome is selected.
simpleRulePredictJitteredScore(match, features, j1, j2, j3) ==
  LET score == (features.home_form - features.away_form)
               + (features.home_goals_avg - features.away_goals_avg) + j1
      sport == match.sport
      prediction == IF score > 300 THEN "Heimsieg"
                    ELSE IF score < -300 THEN "Auswaertssieg"
                    ELSE drawLabel(sport)
      recommendation == IF score > 300 THEN "Heimsieg"
                        ELSE IF score < -300 THEN "Auswaertssieg"
                        ELSE IF sport = "basketball" THEN "Spread meiden"
                        ELSE "Unter 2.5 Tore"
      confidence == IF score > 300 \/ score < -300
                    THEN Min(850, 500 + Abs(score))
                    ELSE 600
      probHome == clamp(100, 800, 500 + score)
      probAway == clamp(100, 800, 500 - score + j2)
      probDraw == clamp(50, 600, 200 + j3)
      total == probHome + probAway + probDraw
  IN  [kind |-> "prediction",
       match_id |-> [declared |-> FALSE, id |-> match.match_id, val |-> Undef],
       prediction |-> Text(prediction),
       probabilities |-> [home |-> roundRatio(Num(probHome), Num(total)),
                          draw |-> roundRatio(Num(probDraw), Num(total)),
                          away |-> roundRatio(Num(probAway), Num(total))],
       explanation |-> Text("Regelbasiertes Modell"),
       betting_advice |-> [recommendation |-> Text(recommendation),
                           confidence |-> round(Num(confidence)),
                           reasoning |-> Text("Basierend auf Form")],
       engine |-> Text("rule-based")]

\* simpleRulePredict(match, features) with the three randomSpread(0.1)
\* draws j1, j2, j3 (thousandths).
simpleRulePredict(match, features, j1, j2, j3) ==
  LET score == (features.home_form - features.away_form)
               + (features.home_goals_avg - features.away_goals_avg)
      sport == match.sport
      prediction == IF score > 300 THEN "Heimsieg"
                    ELSE IF score < -300 THEN "Auswaertssieg"
                    ELSE drawLabel(sport)
      recommendation == IF score > 300 THEN "Heimsieg"
                        ELSE IF score < -300 THEN "Auswaertssieg"
                        ELSE IF sport = "basketball" THEN "Spread meiden"
                        ELSE "Unter 2.5 Tore"
      confidence == IF score > 300 \/ score < -300
                    THEN Min(850, 500 + Abs(score))
                    ELSE 600
      probHome == clamp(100, 800, 500 + score + j1)
      probAway == clamp(100, 800, 500 - score + j2)
      probDraw == clamp(50, 600, 200 + j3)
      total == probHome + probAway + probDraw
  IN  [kind |-> "prediction",
       match_id |-> [declared |-> FALSE, id |-> match.match_id, val |-> Undef],
       prediction |-> Text(prediction),
       probabilities |-> [home |-> roundRatio(Num(probHome), Num(total)),
                          draw |-> roundRatio(Num(probDraw), Num(total)),
                          away |-> roundRatio(Num(probAway), Num(total))],
       explanation |-> Text("Regelbasiertes Modell"),
       betting_advice |-> [recommendation |-> Text(recommendation),
                           confidence |-> round(Num(confidence)),
                           reasoning |-> Text("Basierend auf Form")],
       engine |-> Text("rule-based")]

\* ------------------------------------------------------------------------
\* Match store, stats table and the ingestion collaborator
\* ------------------------------------------------------------------------
TEAM_HISTORY_SIZE == 12
H2H_HISTORY_SIZE == 10

\* A row of the matches table.  A NULL date is 0, a NULL score is -1, a NULL
\* team name is "", and a team id that is NULL or 0 (both falsy) is 0.
MatchRow(id, sport, date, home, away, hid, aid, hg, ag) ==
  [match_id |-> id, sport |-> sport, date |-> date,
   home_team |-> home, away_team |-> away,
   home_team_id |-> hid, away_team_id |-> aid,
   home_goals |-> hg, away_goals |-> ag]

NoMatch == MatchRow(NoId, "", 0, "", "", 0, 0, -1, -1)

\* The contests that predictions are requested for.
FootballContest == MatchRow(Id(0, 100), "football", 10, "A", "B", 1, 2, -1, -1)
BasketballContest == MatchRow(Id(1, 100), "basketball", 0, "C", "D", 3, 0, -1, -1)
AnonymousContest == MatchRow(Id(0, 101), "football", 10, "A", "B", 0, 0, -1, -1)
Contests == {FootballContest, BasketballContest, AnonymousContest}

\* What the sports-data provider knows: items as mapFootballMatch and
\* mapBasketballMatch read them, with the provider's raw id.
ProviderItem(rawId, date, home, away, hid, aid, hg, ag) ==
  [rawId |-> rawId, date |-> date, home_team |-> home, away_team |-> away,
   home_team_id |-> hid, away_team_id |-> aid, home_goals |-> hg,
   away_goals |-> ag]

FootballPool ==
  << ProviderItem(3, 3, "A", "B", 1, 2, 1, 3),
     ProviderItem(2, 2, "B", "A", 2, 1, 0, 0),
     ProviderItem(1, 1, "A", "B", 1, 2, 2, 1) >>
BasketballPool == << ProviderItem(1, 1, "C", "D", 3, 0, 80, 70) >>

ProviderPool(sport) ==
  IF sport = "basketball" THEN BasketballPool ELSE FootballPool

\* Provider ids and offsets over their whole range: Wide(hi, lo) stands
\* for hi * 100,000 + lo with 0 <= lo < 100,000.
Wide(hi, lo) == [hi |-> hi, lo |-> lo]

WideAdd(a, b) ==
  Wide(a.hi + b.hi + ((a.lo + b.lo) \div 100000), (a.lo + b.lo) % 100000)

\* MATCH_ID_OFFSETS without its basketball entry.
MATCH_ID_OFFSETS_FootballOnly(sport) == Wide(0, 0)

\* MATCH_ID_OFFSETS[sport] ?? 0
MATCH_ID_OFFSETS(sport) ==
  IF sport = "basketball" THEN Wide(50000, 0) ELSE Wide(0, 0)

\* offset + numeric of composeMatchId, for a finite raw id.
composeWide(raw, sport) == WideAdd(MATCH_ID_OFFSETS(sport), raw)

\* The contest id a wide number is.
WideToId(w) == Id(w.hi \div 50000, (w.hi % 50000) * 100000 + w.lo)

\* composeMatchId(rawId, sport): offset + rawId.
composeMatchId(rawId, sport) ==
  WideToId(composeWide(Wide(rawId \div 100000, rawId % 100000), sport))

\* mapFootballMatch / mapBasketballMatch followed by { ...row, sport }.
mapRow(item, sport) ==
  MatchRow(composeMatchId(item.rawId, sport), sport, item.date,
           item.home_team, item.away_team, item.home_team_id,
           item.away_team_id, item.home_goals, item.away_goals)

\* saveMatches(matches, sport): INSERT OR REPLACE of every mapped row that
\* has a truthy match_id.
saveMatches(store, items, sport) ==
  LET rows == {r \in {mapRow(items[i], sport) : i \in 1..Len(items)} :
                 r.match_id # NoId}
  IN  {m \in store : \A r \in rows : r.match_id # m.match_id} \cup rows

HasScores(m) == m.home_goals >= 0 /\ m.away_goals >= 0

RECURSIVE SortByDateDesc(_)
\* ORDER BY datetime(date) DESC
SortByDateDesc(S) ==
  IF S = {} THEN <<>>
  ELSE LET top == CHOOSE m \in S : \A o \in S : o.date <= m.date
       IN  <<top>> \o SortByDateDesc(S \ {top})

\* LIMIT @limit
Limit(seq, n) == SubSeq(seq, 1, Min(Len(seq), n))

\* fetchRecentMatches(db, teamName, excludeMatchId, beforeDate, sport, limit)
fetchRecentMatches(store, teamName, excludeMatchId, beforeDate, sport, limit) ==
  IF teamName = "" THEN <<>>
  ELSE Limit(SortByDateDesc(
         {m \in store :
            /\ m.home_team = teamName \/ m.away_team = teamName
            /\ m.match_id # excludeMatchId
            /\ m.sport = sport
            /\ m.date # 0
            /\ HasScores(m)
            /\ (beforeDate # 0 => m.date < beforeDate)}), limit)

\* fetchHeadToHead with datetime(date) <= datetime(@beforeDate).
fetchHeadToHeadInclusive(store, homeTeam, awayTeam, excludeMatchId, beforeDate, sport, limit) ==
  IF homeTeam = "" \/ awayTeam = "" THEN <<>>
  ELSE Limit(SortByDateDesc(
         {m \in store :
            /\ m.match_id # excludeMatchId
            /\ m.sport = sport
            /\ \/ m.home_team = homeTeam /\ m.away_team = awayTeam
               \/ m.home_team = awayTeam /\ m.away_team = homeTeam
            /\ m.date # 0
            /\ HasScores(m)
            /\ (beforeDate # 0 => m.date <= beforeDate)}), limit)

\* fetchHeadToHead(db, homeTeam, awayTeam, excludeMatchId, beforeDate, sport, limit)
fetchHeadToHead(store, homeTeam, awayTeam, excludeMatchId, beforeDate, sport, limit) ==
  IF homeTeam = "" \/ awayTeam = "" THEN <<>>
  ELSE Limit(SortByDateDesc(
         {m \in store :
            /\ m.match_id # excludeMatchId
            /\ m.sport = sport
            /\ \/ m.home_team = homeTeam /\ m.away_team = awayTeam
               \/ m.home_team = awayTeam /\ m.away_team = homeTeam
            /\ m.date # 0
            /\ HasScores(m)
            /\ (beforeDate # 0 => m.date < beforeDate)}), limit)

\* makeCandidateMatchIds(matchId): the id, the id plus the basketball
\* offset, and the id minus the offset when it is at least the offset.
makeCandidateMatchIds(id) ==
  <<id, Id(id.q + 1, id.r)>> \o (IF id.q >= 1 THEN <<Id(id.q - 1, id.r)>> ELSE <<>>)

RECURSIVE FirstRow(_, _, _)
FirstRow(store, candidates, i) ==
  IF i > Len(candidates) THEN NoMatch
  ELSE IF \E m \in store : m.match_id = candidates[i]
  THEN CHOOSE m \in store : m.match_id = candidates[i]
  ELSE FirstRow(store, candidates, i + 1)

\* getMatchRecord(matchId): the first candidate id that has a row.
getMatchRecord(store, id) == FirstRow(store, makeCandidateMatchIds(id), 1)

\* A row of the stats table; sport "" is a NULL sport.
StatsRow(id, sport, hf, af, hg, ag) ==
  [match_id |-> id, sport |-> sport, home_form |-> hf, away_form |-> af,
   home_goals_avg |-> hg, away_goals_avg |-> ag]

NoFeatures == [found |-> FALSE, sport |-> "", home_form |-> 0, away_form |-> 0,
               home_goals_avg |-> 0, away_goals_avg |-> 0]

\* getFeatures(matchId, sportHint) for a match row m that is in the store:
\* the stats row of the id whose sport, when it has one, is the match's.
getFeatures(statsTable, m) ==
  LET rows == {s \in statsTable :
                 /\ s.match_id = m.match_id
                 /\ (IF s.sport # "" THEN s.sport ELSE m.sport) = m.sport}
  IN  IF rows = {} THEN NoFeatures
      ELSE LET row == CHOOSE s \in rows : TRUE
           IN  [found |-> TRUE,
                sport |-> IF row.sport # "" THEN row.sport ELSE m.sport,
                home_form |-> row.home_form, away_form |-> row.away_form,
                home_goals_avg |-> row.home_goals_avg,
                away_goals_avg |-> row.away_goals_avg]

\* buildHistoryKey(sport, teamId)
buildHistoryKey(sport, teamId) == <<sport, teamId>>

\* ------------------------------------------------------------------------
\* State
\* ------------------------------------------------------------------------
VARIABLES
  cfg,                  \* environment: LLAMA_SERVER_URL, OLLAMA_MODEL, API keys
  matches,              \* the matches table
  stats,                \* the stats table
  fetchedHistoryTeams,  \* the per-process backfill memo
  nRequests,            \* predictMatch invocations completed so far
  pc,                   \* the await point the running predictMatch is at
  arg,                  \* its matchId argument
  match,                \* the row getMatchRecord resolved
  features,             \* the record getFeatures returned
  trace,                \* calls and log lines of the running invocation
  result,               \* what the invocation returned or raised
  normIn,               \* normalizer harness: the payload handed in
  normOut,              \* normalizer harness: the value returned
  callIn,               \* function harness: the arguments of the calls
  callOut               \* function harness: the values returned, in order

vars == <<cfg, matches, stats, fetchedHistoryTeams, nRequests, pc, arg, match,
          features, trace, result, normIn, normOut, callIn, callOut>>

pipelineVars == <<cfg, matches, stats, fetchedHistoryTeams, nRequests, pc, arg,
                  match, features, trace, result>>

Ev(e, team) == [e |-> e, team |-> team]

NoResult == [kind |-> "none"]
Raised == [kind |-> "raised"]
ErrorResult(reason) == [kind |-> "error", error |-> reason]

\* The matchId argument: a non-numeric string, a number, a numeric string,
\* or Infinity.
ArgText == [t |-> "text", id |-> NoId]
ArgNum(id) == [t |-> "num", id |-> id]
ArgNumStr(id) == [t |-> "numstr", id |-> id]
ArgInf == [t |-> "inf", id |-> NoId]
NoArg == [t |-> "none", id |-> NoId]

Args == {ArgText, ArgInf, ArgNum(Id(0, 100)), ArgNum(Id(1, 100)),
         ArgNum(Id(0, 101)), ArgNum(Id(0, 999)), ArgNumStr(Id(0, 101))}

\* The stats rows a calculateFeatures run may have left for the contests.
FootballStatsChoices ==
  { StatsRow(Id(0, 100), "football", 500, 500, 1000, 1000),
    StatsRow(Id(0, 100), "football", 800, 200, 2500, 1000),
    StatsRow(Id(0, 100), "football", 250, 500, 1000, 1350) }
BasketballStatsChoices ==
  { StatsRow(Id(1, 100), "basketball", 1000, 0, 80000, 70000) }
AnonymousStats == StatsRow(Id(0, 101), "football", 500, 500, 1000, 1000)

\* The draws of randomSpread(0.1) = (Math.random() - 0.5) * 0.2, thousandths.
Jitters == {-100, 99}

\* Raw outputs of a generator call; RawNull is a call that failed or timed
\* out (the catch block returns null).
GoodProbs == Probs(Num(500), Num(300), Num(200))
GeneratorPayloads ==
  { RawNull,
    RawText("garbage", EmptyObj),
    RawText("scalar", EmptyObj),
    RawObject(Obj(Undef, Text("Heimsieg"), GoodProbs, Text("Form"),
                  Advice(Text("Heimsieg"), Num(755), Text("Form")), Undef),
              NoTexts, NoArrays),
    RawObject(EmptyObj,
              <<RawText("json",
                        Obj(Num(7000), Text("Auswaertssieg"), GoodProbs, Undef,
                            Advice(Undef, Num(5000), Undef),
                            Text("rule-based"))),
                RawAbsent, RawAbsent, RawAbsent>>, NoArrays),
    RawObject(EmptyObj,
              <<RawText("repair",
                        Obj(Undef, Text("Heimsieg"),
                            Probs(Num(1), Text("viel"), Num(1)), Undef,
                            NoAdvice("undef"), Undef)),
                RawAbsent, RawAbsent, RawAbsent>>, NoArrays),
    RawObject(Obj(Undef, Text("Heimsieg"), Probs(InfStr, Num(1), Num(1)), Undef,
                  Advice(Undef, Text("hoch"), Undef), Undef),
              NoTexts, NoArrays) }

\* ------------------------------------------------------------------------
\* hydrateMatchHistory: the code between two await points
\* ------------------------------------------------------------------------
HomeRecent(store, m) ==
  fetchRecentMatches(store, m.home_team, m.match_id, m.date, m.sport,
                     TEAM_HISTORY_SIZE)
AwayRecent(store, m) ==
  fetchRecentMatches(store, m.away_team, m.match_id, m.date, m.sport,
                     TEAM_HISTORY_SIZE)
HeadToHead(store, m) ==
  fetchHeadToHead(store, m.home_team, m.away_team, m.match_id, m.date, m.sport,
                  H2H_HISTORY_SIZE)

RECURSIVE HydrateNext(_, _, _, _)
\* The await point hydrateMatchHistory reaches when it runs on from its
\* stage-th conditional: 1 and 2 are the memo-guarded backfills of the home
\* and the away team, 3 and 4 their sparse-history backfills, 5 the
\* head-to-head backfill; past them the function returns ("hydrated").
HydrateNext(stage, m, memo, store) ==
  CASE stage = 1 ->
         IF m.home_team_id # 0
            /\ buildHistoryKey(m.sport, m.home_team_id) \notin memo
         THEN "home_memo" ELSE HydrateNext(2, m, memo, store)
    [] stage = 2 ->
         IF m.away_team_id # 0
            /\ buildHistoryKey(m.sport, m.away_team_id) \notin memo
         THEN "away_memo" ELSE HydrateNext(3, m, memo, store)
    [] stage = 3 ->
         IF Len(HomeRecent(store, m)) < 3 /\ m.home_team_id # 0
         THEN "home_sparse" ELSE HydrateNext(4, m, memo, store)
    [] stage = 4 ->
         IF Len(AwayRecent(store, m)) < 3 /\ m.away_team_id # 0
         THEN "away_sparse" ELSE HydrateNext(5, m, memo, store)
    [] stage = 5 ->
         IF Len(HeadToHead(store, m)) < 3
            /\ m.home_team_id # 0 /\ m.away_team_id # 0
         THEN "h2h" ELSE "hydrated"
    [] OTHER -> "hydrated"

TeamFetchPoints == {"home_memo", "away_memo", "home_sparse", "away_sparse"}

\* StageOf resuming at the sparse-history test of the team whose backfill
\* has just completed, so that the backfill is repeated while the history
\* stays sparse.
StageOfRetrying(point) ==
  CASE point = "home_memo" -> 1
    [] point = "away_memo" -> 2
    [] point = "home_sparse" -> 2
    [] point = "away_sparse" -> 3
    [] OTHER -> 5

StageOf(point) ==
  CASE point = "home_memo" -> 1
    [] point = "away_memo" -> 2
    [] point = "home_sparse" -> 3
    [] point = "away_sparse" -> 4
    [] OTHER -> 5

TeamOf(point, m) ==
  IF point \in {"home_memo", "home_sparse"} THEN m.home_team_id
  ELSE m.away_team_id

\* The call that is issued on arriving at an await point.
CallEvent(point, m) ==
  CASE point \in TeamFetchPoints -> <<Ev("fetchTeamHistory", TeamOf(point, m))>>
    [] point = "h2h" -> <<Ev("fetchHeadToHeadHistory", 0)>>
    [] OTHER -> <<>>

\* fetchFootballTeamHistory & co. read the key before their try block.
ProviderKey(sport) ==
  IF sport = "basketball" THEN cfg.basketballKey \/ cfg.footballKey
  ELSE cfg.footballKey

\* ------------------------------------------------------------------------
\* Initial state
\* ------------------------------------------------------------------------
\* The rows of the provider pool that are already in the store.
LocalHistory(k) ==
  {mapRow(FootballPool[i], "football") : i \in (Len(FootballPool) - k + 1)..Len(FootballPool)}

InitPipeline ==
  /\ cfg \in [remote : BOOLEAN, local : BOOLEAN,
              footballKey : BOOLEAN, basketballKey : BOOLEAN]
  /\ \E k \in 0..Len(FootballPool) : matches = Contests \cup LocalHistory(k)
  /\ \E fs \in SUBSET FootballStatsChoices, bs \in SUBSET BasketballStatsChoices :
       /\ Cardinality(fs) <= 1
       /\ stats = fs \cup bs \cup {AnonymousStats}
  /\ fetchedHistoryTeams = {}
  /\ nRequests = 0
  /\ pc = "idle"
  /\ arg = NoArg
  /\ match = NoMatch
  /\ features = NoFeatures
  /\ trace = <<>>
  /\ result = NoResult

NormIdle == [kind |-> "idle"]
CallIdle == [fn |-> "none"]

Init ==
  /\ InitPipeline
  /\ normIn = NormIdle
  /\ normOut = NormIdle
  /\ callIn = CallIdle
  /\ callOut = <<>>

\* ------------------------------------------------------------------------
\* predictMatch
\* ------------------------------------------------------------------------
Return(value, tr) ==
  /\ pc' = "done"
  /\ result' = value
  /\ trace' = tr

\* return simpleRulePredict(match, features)
RunRuleBased(m, f, tr) ==
  \E j1 \in Jitters, j2 \in Jitters, j3 \in Jitters :
    Return(simpleRulePredict(m, f, j1, j2, j3), tr \o <<Ev("rule", 0)>>)

\* FromLocalTier without the test of OLLAMA_MODEL.
FromLocalTierUnguarded(m, f, tr) ==
  /\ pc' = "ollama"
  /\ trace' = tr \o <<Ev("callOllama", 0)>>
  /\ result' = result

\* if (OLLAMA_MODEL) { ... await callOllama(prompt) ... } and what follows.
FromLocalTier(m, f, tr) ==
  IF cfg.local
  THEN /\ pc' = "ollama"
       /\ trace' = tr \o <<Ev("callOllama", 0)>>
       /\ result' = result
  ELSE RunRuleBased(m, f, tr)

\* if (LLAMA_SERVER_URL) { ... await callRemoteLlama(prompt) ... } and what
\* follows.
FromRemoteTier(m, f, tr) ==
  IF cfg.remote
  THEN /\ pc' = "remote"
       /\ trace' = tr \o <<Ev("callRemoteLlama", 0)>>
       /\ result' = result
  ELSE FromLocalTier(m, f, tr)

\* predictMatch(matchId) from its first line to its first await (lines
\* 66-76).
BeginPredict(a) ==
  /\ arg' = a
  /\ LET found == IF a.t \in {"num", "numstr"}
                  THEN getMatchRecord(matches, a.id) ELSE NoMatch
     IN  IF a.t = "text"
         THEN /\ Return(ErrorResult("Ungueltige Match-ID"), <<>>)
              /\ match' = NoMatch
         ELSE IF found = NoMatch
         THEN /\ Return(ErrorResult("Match nicht gefunden"), <<>>)
              /\ match' = NoMatch
         ELSE LET point == HydrateNext(1, found, fetchedHistoryTeams, matches)
              IN  /\ match' = found
                  /\ pc' = point
                  /\ trace' = CallEvent(point, found)
                  /\ result' = NoResult

\* A caller invokes predictMatch(matchId).
StartPredict(a) ==
  /\ pc = "idle"
  /\ nRequests < MaxRequests
  /\ BeginPredict(a)
  /\ UNCHANGED <<cfg, matches, stats, fetchedHistoryTeams, nRequests, features,
                 normIn, normOut, callIn, callOut>>

\* await fetchTeamHistory(...) completes: lines 331-334, 341-344, 359-367
\* and 379-387, then on to the next await.
CompleteTeamFetch ==
  /\ pc \in TeamFetchPoints
  /\ LET teamId == TeamOf(pc, match)
         key == buildHistoryKey(match.sport, teamId)
         pool == ProviderPool(match.sport)
     IN  IF ~ProviderKey(match.sport)
         THEN /\ Return(Raised, trace \o <<Ev("throw", teamId)>>)
              /\ UNCHANGED <<matches, fetchedHistoryTeams>>
         ELSE \E fetched \in {IF failed THEN <<>> ELSE SubSeq(pool, 1, k) :
                                 failed \in BOOLEAN, k \in 0..Len(pool)} :
                LET store == saveMatches(matches, fetched, match.sport)
                    memo == IF pc \in {"home_memo", "away_memo"} /\ Len(fetched) > 0
                            THEN fetchedHistoryTeams \cup {key}
                            ELSE fetchedHistoryTeams
                    requery == IF pc \in {"home_sparse", "away_sparse"}
                               THEN <<Ev("requery", teamId)>> ELSE <<>>
                    \* the memo-guarded call tests fetched.length, the
                    \* sparse-history call drops what was returned
                    completed == IF pc \in {"home_sparse", "away_sparse"}
                                 THEN "refetched"
                                 ELSE IF Len(fetched) > 0 THEN "fetched"
                                 ELSE "fetchedEmpty"
                    point == HydrateNext(StageOf(pc) + 1, match, memo, store)
                IN  /\ matches' = store
                    /\ fetchedHistoryTeams' = memo
                    /\ pc' = point
                    /\ trace' = trace \o <<Ev(completed, teamId)>> \o requery
                                  \o CallEvent(point, match)
                    /\ result' = result
  /\ UNCHANGED <<cfg, stats, nRequests, arg, match, features, normIn, normOut,
                 callIn, callOut>>

\* await fetchHeadToHeadHistory(...) completes: lines 400-410.
CompleteHeadToHead ==
  /\ pc = "h2h"
  /\ LET pool == ProviderPool(match.sport)
     IN  IF ~ProviderKey(match.sport)
         THEN /\ Return(Raised, trace \o <<Ev("throw", 0)>>)
              /\ UNCHANGED matches
         ELSE \E fetched \in {IF failed THEN <<>> ELSE SubSeq(pool, 1, k) :
                                 failed \in BOOLEAN, k \in 0..Len(pool)} :
                    /\ matches' = saveMatches(matches, fetched, match.sport)
                    /\ pc' = "hydrated"
                    /\ trace' = trace \o <<Ev("fetched", 0), Ev("requery", 0)>>
                    /\ result' = result
  /\ UNCHANGED <<cfg, stats, fetchedHistoryTeams, nRequests, arg, match,
                 features, normIn, normOut, callIn, callOut>>

\* await hydrateMatchHistory(match) completes: lines 77-86.
ResumeAfterHydrate ==
  /\ pc = "hydrated"
  /\ LET f == getFeatures(stats, match)
     IN  /\ features' = f
         /\ IF ~f.found
            THEN Return(ErrorResult("Keine Features gefunden"),
                        trace \o <<Ev("getFeatures", 0)>>)
            ELSE FromRemoteTier(match, f, trace \o <<Ev("getFeatures", 0)>>)
  /\ UNCHANGED <<cfg, matches, stats, fetchedHistoryTeams, nRequests, arg, match,
                 normIn, normOut, callIn, callOut>>

\* CompleteRemote without the return in the validated branch.
CompleteRemoteNoReturn ==
  /\ pc = "remote"
  /\ \E remoteRaw \in GeneratorPayloads :
       LET parsed == normalizeIncomingPayload(remoteRaw)
           validated == normalizePrediction(parsed, match.match_id)
           tr == trace \o <<Ev("remoteDone", 0)>>
       IN  IF parsed.kind = "null"
           THEN FromLocalTier(match, features, tr)
           ELSE IF validated.kind = "prediction"
           THEN FromLocalTier(match, features, tr \o <<Ev("remoteValid", 0)>>)
           ELSE FromLocalTier(match, features, tr \o <<Ev("remoteWarn", 0)>>)
  /\ UNCHANGED <<cfg, matches, stats, fetchedHistoryTeams, nRequests, arg, match,
                 features, normIn, normOut, callIn, callOut>>

\* await callRemoteLlama(prompt) completes: lines 86-99.
CompleteRemote ==
  /\ pc = "remote"
  /\ \E remoteRaw \in GeneratorPayloads :
       LET parsed == normalizeIncomingPayload(remoteRaw)
           validated == normalizePrediction(parsed, match.match_id)
           tr == trace \o <<Ev("remoteDone", 0)>>
       IN  IF parsed.kind = "null"
           THEN FromLocalTier(match, features, tr)
           ELSE IF validated.kind = "prediction"
           THEN Return([validated EXCEPT !.engine = remoteEngine(parsed)],
                       tr \o <<Ev("remoteValid", 0)>>)
           ELSE FromLocalTier(match, features, tr \o <<Ev("remoteWarn", 0)>>)
  /\ UNCHANGED <<cfg, matches, stats, fetchedHistoryTeams, nRequests, arg, match,
                 features, normIn, normOut, callIn, callOut>>

\* CompleteOllama returning the outcome of the validation as it is.
CompleteOllamaReturnsInvalid ==
  /\ pc = "ollama"
  /\ \E ollamaRaw \in GeneratorPayloads :
       LET parsed == normalizeIncomingPayload(ollamaRaw)
           validated == normalizePrediction(parsed, match.match_id)
           tr == trace \o <<Ev("ollamaDone", 0)>>
       IN  IF parsed.kind = "null"
           THEN RunRuleBased(match, features, tr)
           ELSE IF validated.kind = "prediction"
           THEN Return([validated EXCEPT !.engine = Text("ollama")],
                       tr \o <<Ev("ollamaValid", 0)>>)
           ELSE Return(validated, tr \o <<Ev("ollamaWarn", 0)>>)
  /\ UNCHANGED <<cfg, matches, stats, fetchedHistoryTeams, nRequests, arg, match,
                 features, normIn, normOut, callIn, callOut>>

\* CompleteOllama keeping the engine name the payload declares.
CompleteOllamaDeclaredEngine ==
  /\ pc = "ollama"
  /\ \E ollamaRaw \in GeneratorPayloads :
       LET parsed == normalizeIncomingPayload(ollamaRaw)
           validated == normalizePrediction(parsed, match.match_id)
           tr == trace \o <<Ev("ollamaDone", 0)>>
       IN  IF parsed.kind = "null"
           THEN RunRuleBased(match, features, tr)
           ELSE IF validated.kind = "prediction"
           THEN Return([validated EXCEPT !.engine = remoteEngine(parsed)],
                       tr \o <<Ev("ollamaValid", 0)>>)
           ELSE RunRuleBased(match, features, tr \o <<Ev("ollamaWarn", 0)>>)
  /\ UNCHANGED <<cfg, matches, stats, fetchedHistoryTeams, nRequests, arg, match,
                 features, normIn, normOut, callIn, callOut>>

\* await callOllama(prompt) completes: lines 99-110.
CompleteOllama ==
  /\ pc = "ollama"
  /\ \E ollamaRaw \in GeneratorPayloads :
       LET parsed == normalizeIncomingPayload(ollamaRaw)
           validated == normalizePrediction(parsed, match.match_id)
           tr == trace \o <<Ev("ollamaDone", 0)>>
       IN  IF parsed.kind = "null"
           THEN RunRuleBased(match, features, tr)
           ELSE IF validated.kind = "prediction"
           THEN Return([validated EXCEPT !.engine = Text("ollama")],
                       tr \o <<Ev("ollamaValid", 0)>>)
           ELSE RunRuleBased(match, features, tr \o <<Ev("ollamaWarn", 0)>>)
  /\ UNCHANGED <<cfg, matches, stats, fetchedHistoryTeams, nRequests, arg, match,
                 features, normIn, normOut, callIn, callOut>>

\* The caller has the result; the process is ready for the next request.
Finish ==
  /\ pc = "done"
  /\ pc' = "idle"
  /\ nRequests' = nRequests + 1
  /\ arg' = NoArg
  /\ match' = NoMatch
  /\ features' = NoFeatures
  /\ trace' = <<>>
  /\ result' = NoResult
  /\ UNCHANGED <<cfg, matches, stats, fetchedHistoryTeams, normIn, normOut, callIn, callOut>>

Next ==
  \/ \E a \in Args : StartPredict(a)
  \/ CompleteTeamFetch
  \/ CompleteHeadToHead
  \/ ResumeAfterHydrate
  \/ CompleteRemote
  \/ CompleteOllama
  \/ Finish

Spec == Init /\ [][Next]_vars

\* ------------------------------------------------------------------------
\* The response normalizer on its own
\* ------------------------------------------------------------------------
\* Values a generator may put into probabilities.home/draw/away.
ProbValues ==
  {Undef, Null, Text("viel"), NaNv, PosInf, NegInf, InfStr, NumStr(1)}
    \cup {Num(n) : n \in (-MaxProbInput)..MaxProbInput}

\* Values a generator may put into betting_advice.confidence.
ConfidenceValues == {Undef, Text("hoch"), Num(755), Num(5000), Num(-200), PosInf}

NormInputs ==
  {ParsedNull, ParsedScalar,
   ParsedObj(Obj(Undef, Text("Heimsieg"), NoProbs("undef"), Undef,
                 NoAdvice("undef"), Undef)),
   ParsedObj(Obj(Undef, Text("Heimsieg"), NoProbs("text"), Undef,
                 NoAdvice("null"), Undef))}
    \cup {ParsedObj(Obj(Undef, Text("Heimsieg"), Probs(h, d, a), Undef,
                        Advice(Undef, c, Undef), Undef)) :
            h \in ProbValues, d \in ProbValues, a \in ProbValues,
            c \in ConfidenceValues}

PipelineIdle ==
  /\ cfg = [remote |-> FALSE, local |-> FALSE,
            footballKey |-> TRUE, basketballKey |-> TRUE]
  /\ matches = Contests
  /\ stats = {AnonymousStats}
  /\ fetchedHistoryTeams = {}
  /\ nRequests = 0
  /\ pc = "idle"
  /\ arg = NoArg
  /\ match = NoMatch
  /\ features = NoFeatures
  /\ trace = <<>>
  /\ result = NoResult

InitNorm ==
  /\ PipelineIdle
  /\ normIn \in NormInputs
  /\ normOut = NormIdle
  /\ callIn = CallIdle
  /\ callOut = <<>>

\* normalizePrediction(payload, matchId) is applied to the payload.
Normalize ==
  /\ normOut = NormIdle
  /\ normOut' = normalizePrediction(normIn, Id(0, 100))
  /\ UNCHANGED <<normIn, callIn, callOut, pipelineVars>>

NextNorm == Normalize

SpecNorm == InitNorm /\ [][NextNorm]_vars

\* ------------------------------------------------------------------------
\* The rule-based predictor on its own
\* ------------------------------------------------------------------------
\* Feature records as getFeatures returns them: forms in thousandths,
\* scoring averages in thousandths (rounded to hundredths by the engine).
RuleForms == {0, 333, 500, 1000}
RuleAverages == {0, 1000, 1300, 2500}
RuleFeatures ==
  {[found |-> TRUE, sport |-> "football", home_form |-> hf, away_form |-> af,
    home_goals_avg |-> hg, away_goals_avg |-> ag] :
     hf \in RuleForms, af \in {0, 500}, hg \in RuleAverages, ag \in {1000, 1300}}

\* Draws of randomSpread(0.1) from one end of its range to the other.
RuleJitters == {-100, 0, 99}

InitRule ==
  /\ PipelineIdle
  /\ normIn = NormIdle
  /\ normOut = NormIdle
  /\ \E m \in {FootballContest, BasketballContest}, f \in RuleFeatures :
       callIn = [fn |-> "simpleRulePredict", match |-> m, features |-> f]
  /\ callOut = <<>>

\* simpleRulePredict(match, features) is invoked, up to twice, on the same
\* arguments; each invocation draws its own jitter.
RulePredict ==
  /\ callIn.fn = "simpleRulePredict"
  /\ Len(callOut) < 2
  /\ \E j1 \in RuleJitters, j2 \in RuleJitters, j3 \in RuleJitters :
       callOut' = Append(callOut, simpleRulePredict(callIn.match, callIn.features,
                                                    j1, j2, j3))
  /\ UNCHANGED <<callIn, normIn, normOut, pipelineVars>>

NextRule == RulePredict

SpecRule == InitRule /\ [][NextRule]_vars

\* ------------------------------------------------------------------------
\* The Feature Engine on its own
\* ------------------------------------------------------------------------
\* Dates are day numbers (0 is a NULL date), so that shiftDate(date, -365)
\* is date - 365.  A form is wins / games in thousandths, truncated; a
\* scoring average is rounded to hundredths as round() does.
windowSize == 10

shiftDate(date, days) == date + days

RECURSIVE SortByDateAsc(_)
\* .sort((a, b) => da - db): ascending by date.
SortByDateAsc(S) ==
  IF S = {} THEN <<>>
  ELSE LET first == CHOOSE m \in S : \A o \in S : m.date <= o.date
       IN  <<first>> \o SortByDateAsc(S \ {first})

\* .slice(-n): the last n entries.
SliceLast(seq, n) == SubSeq(seq, Max(1, Len(seq) - n + 1), Len(seq))

\* Lines 77-92 without the cutoff.
relevantNoCutoff(ms, teamName, currentDate, window) ==
  SliceLast(SortByDateAsc(
    {m \in ms :
       /\ m.date # 0
       /\ m.home_team = teamName \/ m.away_team = teamName
       /\ (currentDate # 0 => m.date < currentDate)}), window)

\* The filter, sort and slice of calcTeamStats (lines 77-92).
relevant(ms, teamName, currentDate, window) ==
  LET cutoff == IF currentDate # 0 THEN shiftDate(currentDate, -365) ELSE 0
  IN  SliceLast(SortByDateAsc(
        {m \in ms :
           /\ m.date # 0
           /\ m.home_team = teamName \/ m.away_team = teamName
           /\ (currentDate # 0 => m.date < currentDate)
           /\ (currentDate # 0 => m.date >= cutoff)}), window)

RECURSIVE goalsFor(_, _, _)
\* goalsForTotal over the entries of the window that have both scores.
goalsFor(rows, teamName, i) ==
  IF i > Len(rows) THEN 0
  ELSE (IF ~HasScores(rows[i]) THEN 0
        ELSE IF rows[i].home_team = teamName THEN rows[i].home_goals
        ELSE rows[i].away_goals) + goalsFor(rows, teamName, i + 1)

\* calcTeamStats counting a draw as a win.
calcTeamStatsDrawsWin(ms, teamName, currentDate) ==
  LET rows == relevant(ms, teamName, currentDate, windowSize)
      counted == {i \in 1..Len(rows) : HasScores(rows[i])}
      gamesCount == Cardinality(counted)
      wins == Cardinality({i \in counted :
                 IF rows[i].home_team = teamName
                 THEN rows[i].home_goals >= rows[i].away_goals
                 ELSE rows[i].away_goals >= rows[i].home_goals})
      goalsForTotal == goalsFor(rows, teamName, 1)
      denominator == Max(gamesCount, 1)
  IN  IF teamName = "" \/ Len(rows) = 0
      THEN [form |-> 0, avgGoalsFor |-> 0]
      ELSE [form |-> (1000 * wins) \div denominator,
            avgGoalsFor |-> IF gamesCount > 0
                            THEN 10 * ((200 * goalsForTotal + gamesCount)
                                         \div (2 * gamesCount))
                            ELSE 0]

\* calcTeamStats(matches, teamName, currentDateStr, windowSize = 10)
calcTeamStats(ms, teamName, currentDate) ==
  LET rows == relevant(ms, teamName, currentDate, windowSize)
      counted == {i \in 1..Len(rows) : HasScores(rows[i])}
      gamesCount == Cardinality(counted)
      wins == Cardinality({i \in counted :
                 IF rows[i].home_team = teamName
                 THEN rows[i].home_goals > rows[i].away_goals
                 ELSE rows[i].away_goals > rows[i].home_goals})
      goalsForTotal == goalsFor(rows, teamName, 1)
      denominator == Max(gamesCount, 1)
  IN  IF teamName = "" \/ Len(rows) = 0
      THEN [form |-> 0, avgGoalsFor |-> 0]
      ELSE [form |-> (1000 * wins) \div denominator,
            avgGoalsFor |-> IF gamesCount > 0
                            THEN 10 * ((200 * goalsForTotal + gamesCount)
                                         \div (2 * gamesCount))
                            ELSE 0]

\* The rows calculateFeatures computes and returns (lines 5-54).
featureRows(ms) ==
  {LET sportMatches == {x \in ms : x.sport = m.sport}
       homeStats == calcTeamStats(sportMatches, m.home_team, m.date)
       awayStats == calcTeamStats(sportMatches, m.away_team, m.date)
   IN  StatsRow(m.match_id, m.sport, homeStats.form, awayStats.form,
                homeStats.avgGoalsFor, awayStats.avgGoalsFor) : m \in ms}

\* insertMany with INSERT OR IGNORE: a stored row is kept.
insertManyIgnore(statsTable, rows) ==
  statsTable \cup {r \in rows : \A s \in statsTable : s.match_id # r.match_id}

\* insertMany(rows): INSERT OR REPLACE INTO stats, keyed by match_id.
insertMany(statsTable, rows) ==
  {s \in statsTable : \A r \in rows : r.match_id # s.match_id} \cup rows

\* The match table the engine runs on.  FeatTarget (A against B, day 400)
\* and FeatUndated (E against A, no date) are the contests looked at.  Team
\* A has a match 366 days before the target, one exactly 365 days before
\* it, up to MaxFixtures matches inside the window, of which any may lack
\* its scores, one on the target's day, one after it, and a basketball game
\* under the same name.  Team B has matches outside the window only, team E
\* none.
FeatTarget == MatchRow(Id(0, 100), "football", 400, "A", "B", 1, 2, -1, -1)
FeatUndated == MatchRow(Id(0, 101), "football", 0, "E", "A", 5, 1, -1, -1)

Fixture(i, scored) ==
  MatchRow(Id(0, i), "football", 100 + 10 * i,
           IF i % 2 = 1 THEN "A" ELSE "C", IF i % 2 = 1 THEN "C" ELSE "A",
           IF i % 2 = 1 THEN 1 ELSE 3, IF i % 2 = 1 THEN 3 ELSE 1,
           IF ~scored THEN -1 ELSE IF i % 2 = 1 THEN i % 3 ELSE 1,
           IF ~scored THEN -1 ELSE IF i % 2 = 1 THEN 1 ELSE i % 3)

FixedFixtures ==
  { FeatTarget, FeatUndated,
    MatchRow(Id(0, 50), "football", 34, "B", "A", 2, 1, 2, 1),
    MatchRow(Id(0, 51), "football", 35, "A", "C", 1, 3, 4, 0),
    MatchRow(Id(0, 52), "football", 400, "B", "A", 2, 1, 3, 3),
    MatchRow(Id(0, 53), "football", 410, "A", "B", 1, 2, 0, 4),
    MatchRow(Id(1, 54), "basketball", 300, "A", "B", 1, 2, 90, 80) }

\* A stats row left by an earlier run over other data.
StaleStats == {StatsRow(Id(0, 100), "football", 999, 999, 9990, 9990)}

InitFeat ==
  /\ cfg = [remote |-> FALSE, local |-> FALSE,
            footballKey |-> TRUE, basketballKey |-> TRUE]
  /\ \E k \in 0..MaxFixtures :
       \E unscored \in SUBSET ((MaxFixtures - k + 1)..MaxFixtures) :
         matches = FixedFixtures
                     \cup {Fixture(i, i \notin unscored) :
                             i \in (MaxFixtures - k + 1)..MaxFixtures}
  /\ stats \in {{}, StaleStats}
  /\ fetchedHistoryTeams = {}
  /\ nRequests = 0
  /\ pc = "idle"
  /\ arg = NoArg
  /\ match = NoMatch
  /\ features = NoFeatures
  /\ trace = <<>>
  /\ result = NoResult
  /\ normIn = NormIdle
  /\ normOut = NormIdle
  /\ callIn = [fn |-> "calculateFeatures", before |-> stats]
  /\ callOut = <<>>

\* calculateFeatures(): compute the rows, store them, return them.
RunCalculateFeatures ==
  /\ callIn.fn = "calculateFeatures"
  /\ Len(callOut) < 2
  /\ LET rows == featureRows(matches)
     IN  /\ stats' = insertMany(stats, rows)
         /\ callOut' = Append(callOut, rows)
  /\ UNCHANGED <<cfg, matches, fetchedHistoryTeams, nRequests, pc, arg, match,
                 features, trace, result, normIn, normOut, callIn>>

NextFeat == RunCalculateFeatures

SpecFeat == InitFeat /\ [][NextFeat]_vars

\* ------------------------------------------------------------------------
\* The history context on its own
\* ------------------------------------------------------------------------
\* getMatchContext(match) on the store.
getMatchContext(store, m) ==
  [sport |-> m.sport, homeTeam |-> m.home_team, awayTeam |-> m.away_team,
   homeTeamRecent |-> HomeRecent(store, m),
   awayTeamRecent |-> AwayRecent(store, m),
   headToHead |-> HeadToHead(store, m)]

\* The store: the target contest (A against B, played on day 400, or the
\* same contest without a date), up to MaxFixtures earlier meetings of A
\* and B, of which any may lack its scores, and rows that must stay out of
\* the lists: a meeting on the target's day, one after it, one without a
\* date, a basketball game of the same names; A and B each have two earlier
\* matches against C.
CtxTarget == MatchRow(Id(0, 100), "football", 400, "A", "B", 1, 2, 3, 1)
CtxUndated == MatchRow(Id(0, 100), "football", 0, "A", "B", 1, 2, -1, -1)

Meeting(i, scored) ==
  MatchRow(Id(0, i), "football", 200 + 10 * i,
           IF i % 2 = 1 THEN "A" ELSE "B", IF i % 2 = 1 THEN "B" ELSE "A",
           IF i % 2 = 1 THEN 1 ELSE 2, IF i % 2 = 1 THEN 2 ELSE 1,
           IF scored THEN i % 3 ELSE -1, IF scored THEN 1 ELSE -1)

OtherRows ==
  { MatchRow(Id(0, 60), "football", 400, "B", "A", 2, 1, 2, 2),
    MatchRow(Id(0, 61), "football", 410, "A", "B", 1, 2, 0, 1),
    MatchRow(Id(0, 62), "football", 0, "A", "B", 1, 2, 1, 1),
    MatchRow(Id(1, 63), "basketball", 300, "A", "B", 1, 2, 90, 80),
    MatchRow(Id(0, 64), "football", 150, "A", "C", 1, 3, 2, 0),
    MatchRow(Id(0, 65), "football", 160, "C", "A", 3, 1, 1, 1),
    MatchRow(Id(0, 66), "football", 170, "B", "C", 2, 3, 0, 0),
    MatchRow(Id(0, 67), "football", 180, "C", "B", 3, 2, 3, 1) }

InitCtx ==
  /\ cfg = [remote |-> FALSE, local |-> FALSE,
            footballKey |-> TRUE, basketballKey |-> TRUE]
  /\ \E target \in {CtxTarget, CtxUndated}, k \in 0..MaxFixtures :
       \E unscored \in SUBSET ((MaxFixtures - k + 1)..MaxFixtures) :
         /\ matches = {target} \cup OtherRows
                        \cup {Meeting(i, i \notin unscored) :
                                i \in (MaxFixtures - k + 1)..MaxFixtures}
         /\ callIn = [fn |-> "getMatchContext", match |-> target]
  /\ stats = {}
  /\ fetchedHistoryTeams = {}
  /\ nRequests = 0
  /\ pc = "idle"
  /\ arg = NoArg
  /\ match = NoMatch
  /\ features = NoFeatures
  /\ trace = <<>>
  /\ result = NoResult
  /\ normIn = NormIdle
  /\ normOut = NormIdle
  /\ callOut = <<>>

\* const context = getMatchContext(match)
BuildContext ==
  /\ callIn.fn = "getMatchContext"
  /\ callOut = <<>>
  /\ callOut' = <<getMatchContext(matches, callIn.match)>>
  /\ UNCHANGED <<callIn, normIn, normOut, pipelineVars>>

NextCtx == BuildContext

SpecCtx == InitCtx /\ [][NextCtx]_vars

\* ------------------------------------------------------------------------
\* Contest ids on their own
\* ------------------------------------------------------------------------
\* Raw provider ids: 0, 100, 99,999, 100,000, 2,500,000,000 and
\* 4,999,999,999 are below the offset; 5,000,000,000 and 5,000,000,100 are
\* not.
RawIds ==
  { Wide(0, 0), Wide(0, 100), Wide(0, 99999), Wide(1, 0), Wide(25000, 0),
    Wide(49999, 99999), Wide(50000, 0), Wide(50000, 100) }

InitIds ==
  /\ PipelineIdle
  /\ normIn = NormIdle
  /\ normOut = NormIdle
  /\ \E a \in RawIds, b \in RawIds,
        sa \in {"football", "basketball"}, sb \in {"football", "basketball"} :
       callIn = [fn |-> "composeMatchId", a |-> a, sportA |-> sa,
                 b |-> b, sportB |-> sb]
  /\ callOut = <<>>

\* composeMatchId is applied to the two raw ids.
ComposeIds ==
  /\ callIn.fn = "composeMatchId"
  /\ callOut = <<>>
  /\ callOut' = <<composeWide(callIn.a, callIn.sportA),
                  composeWide(callIn.b, callIn.sportB)>>
  /\ UNCHANGED <<callIn, normIn, normOut, pipelineVars>>

NextIds == ComposeIds

SpecIds == InitIds /\ [][NextIds]_vars

\* ------------------------------------------------------------------------
\* Resolving a contest id on its own
\* ------------------------------------------------------------------------
\* The rows a store may hold: the football and the basketball contest with
\* raw id 100, a second football contest, and a basketball contest with raw
\* id 102.
ResolveRows ==
  { FootballContest, BasketballContest, AnonymousContest,
    MatchRow(Id(1, 102), "basketball", 20, "C", "D", 3, 4, -1, -1) }

\* The ids looked up: 100, 101, 102 and 999 of the football range, and
\* 5,000,000,100 and 5,000,000,101 of the basketball range.
ResolveIds ==
  {Id(0, 100), Id(0, 101), Id(0, 102), Id(0, 999), Id(1, 100), Id(1, 101)}

InitResolve ==
  /\ cfg = [remote |-> FALSE, local |-> FALSE,
            footballKey |-> TRUE, basketballKey |-> TRUE]
  /\ matches \in SUBSET ResolveRows
  /\ stats = {}
  /\ fetchedHistoryTeams = {}
  /\ nRequests = 0
  /\ pc = "idle"
  /\ arg = NoArg
  /\ match = NoMatch
  /\ features = NoFeatures
  /\ trace = <<>>
  /\ result = NoResult
  /\ normIn = NormIdle
  /\ normOut = NormIdle
  /\ \E id \in ResolveIds : callIn = [fn |-> "getMatchRecord", id |-> id]
  /\ callOut = <<>>

\* const match = getMatchRecord(numericId)
ResolveRecord ==
  /\ callIn.fn = "getMatchRecord"
  /\ callOut = <<>>
  /\ callOut' = <<getMatchRecord(matches, callIn.id)>>
  /\ UNCHANGED <<callIn, normIn, normOut, pipelineVars>>

NextResolve == ResolveRecord

SpecResolve == InitResolve /\ [][NextResolve]_vars

\* ------------------------------------------------------------------------
\* calcTeamStats on its own
\* ------------------------------------------------------------------------
\* The calls calculateFeatures makes for the football matches of the table
\* of the Feature Engine: for team A, B or E or a NULL team name, with the
\* date of a contest played on day 400 or with the NULL date of an undated
\* contest.  now is the day on which the call is made.
StatsCalls ==
  {[fn |-> "calcTeamStats", teamName |-> t, currentDate |-> d.date, now |-> d.now] :
     t \in {"A", "B", "E", ""},
     d \in {[date |-> 400, now |-> 420], [date |-> 0, now |-> 420],
            [date |-> 0, now |-> 800]}}

InitStats ==
  /\ cfg = [remote |-> FALSE, local |-> FALSE,
            footballKey |-> TRUE, basketballKey |-> TRUE]
  /\ \E k \in 0..MaxFixtures :
       \E unscored \in SUBSET ((MaxFixtures - k + 1)..MaxFixtures) :
         matches = FixedFixtures
                     \cup {Fixture(i, i \notin unscored) :
                             i \in (MaxFixtures - k + 1)..MaxFixtures}
  /\ stats = {}
  /\ fetchedHistoryTeams = {}
  /\ nRequests = 0
  /\ pc = "idle"
  /\ arg = NoArg
  /\ match = NoMatch
  /\ features = NoFeatures
  /\ trace = <<>>
  /\ result = NoResult
  /\ normIn = NormIdle
  /\ normOut = NormIdle
  /\ callIn \in StatsCalls
  /\ callOut = <<>>

\* The matches of one sport, as calculateFeatures groups them (lines 33-40).
sportMatches(ms, sport) == {x \in ms : x.sport = sport}

\* const homeStats = calcTeamStats(sportMatches, match.home_team, match.date)
RunCalcTeamStats ==
  /\ callIn.fn = "calcTeamStats"
  /\ callOut = <<>>
  /\ callOut' = <<calcTeamStats(sportMatches(matches, "football"),
                                callIn.teamName, callIn.currentDate)>>
  /\ UNCHANGED <<callIn, normIn, normOut, pipelineVars>>

NextStats == RunCalcTeamStats

SpecStats == InitStats /\ [][NextStats]_vars

\* ------------------------------------------------------------------------
\* One generator tier on its own
\* ------------------------------------------------------------------------
\* Structured payloads that do not themselves expose prediction and
\* probabilities.  Each of the members response, completion, output, text
\* is missing, a string without JSON, a string with the JSON of an object
\* whose probabilities do not parse, or a string with the JSON of a valid
\* prediction; the members results, generations, choices are missing or
\* hold objects of the same two kinds.
ValidPayload(label) ==
  Obj(Undef, Text(label), GoodProbs, Text("Form"),
      Advice(Text(label), Num(700), Text("Form")), Undef)
InvalidPayload ==
  Obj(Undef, Text("Heimsieg"), Probs(Num(1), Text("viel"), Num(1)), Undef,
      NoAdvice("undef"), Undef)

TierTexts ==
  {RawAbsent, RawText("garbage", EmptyObj), RawText("json", InvalidPayload),
   RawText("json", ValidPayload("Heimsieg"))}

TierArrays ==
  { NoArrays,
    << <<RawObject(InvalidPayload, NoTexts, NoArrays),
         RawObject(ValidPayload("Auswaertssieg"), NoTexts, NoArrays)>>,
       NoArray, NoArray >>,
    << NoArray, <<RawText("json", ValidPayload("Auswaertssieg"))>>,
       <<RawObject(InvalidPayload, NoTexts, NoArrays)>> >> }

TierPayloads ==
  {RawObject(EmptyObj, <<a, b, c, d>>, arrays) :
     a \in TierTexts, b \in TierTexts, c \in TierTexts, d \in TierTexts,
     arrays \in TierArrays}

InitTier ==
  /\ PipelineIdle
  /\ normIn = NormIdle
  /\ normOut = NormIdle
  /\ \E raw \in TierPayloads : callIn = [fn |-> "tier", raw |-> raw]
  /\ callOut = <<>>

\* What a tier makes of the raw output of its generator (lines 87-90 and
\* 100-103): the validated prediction, or nothing.
tierYield(raw, matchId) ==
  LET parsed == normalizeIncomingPayload(raw)
  IN  IF parsed.kind = "null" THEN NoPrediction
      ELSE normalizePrediction(parsed, matchId)

RunTier ==
  /\ callIn.fn = "tier"
  /\ callOut = <<>>
  /\ callOut' = <<tierYield(callIn.raw, Id(0, 100))>>
  /\ UNCHANGED <<callIn, normIn, normOut, pipelineVars>>

NextTier == RunTier

SpecTier == InitTier /\ [][NextTier]_vars

\* ------------------------------------------------------------------------
\* predictMatch under fair scheduling
\* ------------------------------------------------------------------------
\* The process starts with the three contests and their features stored
\* and no earlier match in the store, under every configuration.
InitLive ==
  /\ cfg \in [remote : BOOLEAN, local : BOOLEAN,
              footballKey : BOOLEAN, basketballKey : BOOLEAN]
  /\ matches = Contests
  /\ stats = {StatsRow(Id(0, 100), "football", 500, 500, 1000, 1000),
              StatsRow(Id(1, 100), "basketball", 1000, 0, 80000, 70000),
              AnonymousStats}
  /\ fetchedHistoryTeams = {}
  /\ nRequests = 0
  /\ pc = "idle"
  /\ arg = NoArg
  /\ match = NoMatch
  /\ features = NoFeatures
  /\ trace = <<>>
  /\ result = NoResult
  /\ normIn = NormIdle
  /\ normOut = NormIdle
  /\ callIn = CallIdle
  /\ callOut = <<>>

\* Every awaited call settles: axios resolves, rejects or times out (20 s
\* and 30 s for the generators, the provider calls likewise), and the event
\* loop then resumes the function that awaits it.
SpecLive ==
  /\ InitLive
  /\ [][Next]_vars
  /\ WF_vars(CompleteTeamFetch)
  /\ WF_vars(CompleteHeadToHead)
  /\ WF_vars(ResumeAfterHydrate)
  /\ WF_vars(CompleteRemote)
  /\ WF_vars(CompleteOllama)

\* ------------------------------------------------------------------------
\* respondWithPrediction (bot/bot.js)
\* ------------------------------------------------------------------------
\* The handler of /predict and of the match buttons: ensureMatchHistory,
\* then calculateFeatures, then predictMatch.  callIn.phase tells which of
\* the two callers of hydrateMatchHistory is running.
Respond(phase) == [fn |-> "respondWithPrediction", phase |-> phase]

\* The ids the handlers pass on: Number(matchId) of a numeric text.
BotArgs == {ArgNum(Id(0, 100)), ArgNum(Id(1, 100)), ArgNum(Id(0, 101)),
            ArgNum(Id(0, 999))}

InitBot ==
  /\ cfg \in [remote : {FALSE}, local : BOOLEAN,
              footballKey : BOOLEAN, basketballKey : {TRUE}]
  /\ \E k \in 0..Len(FootballPool) : matches = Contests \cup LocalHistory(k)
  /\ stats = {}
  /\ fetchedHistoryTeams = {}
  /\ nRequests = 0
  /\ pc = "idle"
  /\ arg = NoArg
  /\ match = NoMatch
  /\ features = NoFeatures
  /\ trace = <<>>
  /\ result = NoResult
  /\ normIn = NormIdle
  /\ normOut = NormIdle
  /\ callIn = Respond("idle")
  /\ callOut = <<>>

\* respondWithPrediction(ctx, matchId) up to the first await of
\* ensureMatchHistory (bot.js 277, predictor 113-122).
StartRespond(a) ==
  /\ callIn = Respond("idle")
  /\ pc = "idle"
  /\ nRequests < MaxRequests
  /\ callIn' = Respond("ensure")
  /\ arg' = a
  /\ LET found == getMatchRecord(matches, a.id)
         point == IF found = NoMatch THEN "hydrated"
                  ELSE HydrateNext(1, found, fetchedHistoryTeams, matches)
     IN  /\ match' = found
         /\ pc' = point
         /\ trace' = CallEvent(point, found)
         /\ result' = NoResult
  /\ UNCHANGED <<cfg, matches, stats, fetchedHistoryTeams, nRequests, features,
                 normIn, normOut, callOut>>

\* calculateFeatures() on the match table (featureEngine.js 20-22: nothing
\* is stored for an empty table).
calculateFeatures(ms, statsTable) ==
  IF ms = {} THEN statsTable ELSE insertMany(statsTable, featureRows(ms))

\* await ensureMatchHistory(matchId) completes: calculateFeatures() runs
\* and predictMatch(matchId) starts (bot.js 278-285).
ResumeEnsure ==
  /\ callIn = Respond("ensure")
  /\ pc = "hydrated"
  /\ stats' = calculateFeatures(matches, stats)
  /\ callIn' = Respond("predict")
  /\ BeginPredict(arg)
  /\ UNCHANGED <<cfg, matches, fetchedHistoryTeams, nRequests, features,
                 normIn, normOut, callOut>>

\* ensureMatchHistory raised: the catch of bot.js 279-281 logs the error,
\* calculateFeatures() is skipped, and predictMatch(matchId) starts.
ResumeEnsureCaught ==
  /\ callIn = Respond("ensure")
  /\ pc = "done"
  /\ callIn' = Respond("predict")
  /\ BeginPredict(arg)
  /\ UNCHANGED <<cfg, matches, stats, fetchedHistoryTeams, nRequests, features,
                 normIn, normOut, callOut>>

\* await hydrateMatchHistory(match) of predictMatch completes.
ResumePredict ==
  /\ callIn = Respond("predict")
  /\ ResumeAfterHydrate

\* predictMatch has returned or raised; the handler sends its message.
FinishRespond ==
  /\ callIn = Respond("predict")
  /\ pc = "done"
  /\ callIn' = Respond("idle")
  /\ pc' = "idle"
  /\ nRequests' = nRequests + 1
  /\ arg' = NoArg
  /\ match' = NoMatch
  /\ features' = NoFeatures
  /\ trace' = <<>>
  /\ result' = NoResult
  /\ UNCHANGED <<cfg, matches, stats, fetchedHistoryTeams, normIn, normOut, callOut>>

NextBot ==
  \/ \E a \in BotArgs : StartRespond(a)
  \/ CompleteTeamFetch
  \/ CompleteHeadToHead
  \/ ResumeEnsure
  \/ ResumeEnsureCaught
  \/ ResumePredict
  \/ CompleteOllama
  \/ FinishRespond

SpecBot == InitBot /\ [][NextBot]_vars

\* ------------------------------------------------------------------------
\* Two requests interleaved at their await points
\* ------------------------------------------------------------------------
\* The bot handles every update in its own asynchronous handler, so a
\* second predictMatch may start while the first is suspended at a provider
\* call.  In this specification pc, arg, match, features, trace and result
\* are pairs with one component for each of the two requests; the store and
\* the memo are shared.  Both generator tiers are unconfigured, so a
\* request that finds its features ends with the rule-based predictor.
Requests == {1, 2}

\* A second contest of the home team of FootballContest.
SharedTeamContest == MatchRow(Id(0, 102), "football", 10, "A", "C", 1, 3, -1, -1)

RaceArgs == {ArgNum(Id(0, 100)), ArgNum(Id(0, 102)), ArgNum(Id(0, 999))}

InitRace ==
  /\ cfg = [remote |-> FALSE, local |-> FALSE,
            footballKey |-> TRUE, basketballKey |-> TRUE]
  /\ \E k \in 0..Len(FootballPool) :
       matches = {FootballContest, SharedTeamContest} \cup LocalHistory(k)
  /\ stats = {StatsRow(Id(0, 100), "football", 500, 500, 1000, 1000),
              StatsRow(Id(0, 102), "football", 800, 200, 2500, 1000)}
  /\ fetchedHistoryTeams = {}
  /\ nRequests = 0
  /\ pc = [i \in Requests |-> "idle"]
  /\ arg = [i \in Requests |-> NoArg]
  /\ match = [i \in Requests |-> NoMatch]
  /\ features = [i \in Requests |-> NoFeatures]
  /\ trace = [i \in Requests |-> <<>>]
  /\ result = [i \in Requests |-> NoResult]
  /\ normIn = NormIdle
  /\ normOut = NormIdle
  /\ callIn = CallIdle
  /\ callOut = <<>>

\* Request i returns or raises.
RaceReturn(i, value, tr) ==
  /\ pc' = [pc EXCEPT ![i] = "done"]
  /\ result' = [result EXCEPT ![i] = value]
  /\ trace' = [trace EXCEPT ![i] = tr]

\* Request i goes on to its next await point.
RaceAwait(i, point, m, tr) ==
  /\ pc' = [pc EXCEPT ![i] = point]
  /\ result' = result
  /\ trace' = [trace EXCEPT ![i] = tr \o CallEvent(point, m)]

\* predictMatch(matchId) of request i up to its first await (lines 66-76).
RaceStart(i, a) ==
  /\ pc[i] = "idle"
  /\ arg' = [arg EXCEPT ![i] = a]
  /\ LET found == getMatchRecord(matches, a.id)
     IN  /\ match' = [match EXCEPT ![i] = found]
         /\ IF found = NoMatch
            THEN RaceReturn(i, ErrorResult("Match nicht gefunden"), <<>>)
            ELSE RaceAwait(i, HydrateNext(1, found, fetchedHistoryTeams, matches),
                           found, <<>>)
  /\ UNCHANGED <<cfg, matches, stats, fetchedHistoryTeams, nRequests, features,
                 normIn, normOut, callIn, callOut>>

\* await fetchTeamHistory(...) of request i completes (lines 331-334,
\* 341-344, 359-367, 379-387), then on to its next await.
RaceTeamFetch(i) ==
  /\ pc[i] \in TeamFetchPoints
  /\ LET m == match[i]
         teamId == TeamOf(pc[i], m)
         key == buildHistoryKey(m.sport, teamId)
         pool == ProviderPool(m.sport)
     IN  IF ~ProviderKey(m.sport)
         THEN /\ RaceReturn(i, Raised, trace[i] \o <<Ev("throw", teamId)>>)
              /\ UNCHANGED <<matches, fetchedHistoryTeams>>
         ELSE \E fetched \in {IF failed THEN <<>> ELSE SubSeq(pool, 1, k) :
                                 failed \in BOOLEAN, k \in 0..Len(pool)} :
                LET store == saveMatches(matches, fetched, m.sport)
                    memo == IF pc[i] \in {"home_memo", "away_memo"}
                               /\ Len(fetched) > 0
                            THEN fetchedHistoryTeams \cup {key}
                            ELSE fetchedHistoryTeams
                    completed == IF pc[i] \in {"home_sparse", "away_sparse"}
                                 THEN "refetched"
                                 ELSE IF Len(fetched) > 0 THEN "fetched"
                                 ELSE "fetchedEmpty"
                IN  /\ matches' = store
                    /\ fetchedHistoryTeams' = memo
                    /\ RaceAwait(i, HydrateNext(StageOf(pc[i]) + 1, m, memo, store),
                                 m, trace[i] \o <<Ev(completed, teamId)>>)
  /\ UNCHANGED <<cfg, stats, nRequests, arg, match, features, normIn, normOut,
                 callIn, callOut>>

\* await fetchHeadToHeadHistory(...) of request i completes (lines 400-410).
RaceHeadToHead(i) ==
  /\ pc[i] = "h2h"
  /\ LET m == match[i]
         pool == ProviderPool(m.sport)
     IN  IF ~ProviderKey(m.sport)
         THEN /\ RaceReturn(i, Raised, trace[i] \o <<Ev("throw", 0)>>)
              /\ UNCHANGED matches
         ELSE \E fetched \in {IF failed THEN <<>> ELSE SubSeq(pool, 1, k) :
                                 failed \in BOOLEAN, k \in 0..Len(pool)} :
                /\ matches' = saveMatches(matches, fetched, m.sport)
                /\ RaceAwait(i, "hydrated", m, trace[i] \o <<Ev("fetched", 0)>>)
  /\ UNCHANGED <<cfg, stats, fetchedHistoryTeams, nRequests, arg, match,
                 features, normIn, normOut, callIn, callOut>>

\* await hydrateMatchHistory(match) of request i completes (lines 77-110,
\* with LLAMA_SERVER_URL and OLLAMA_MODEL unset).
RaceResume(i) ==
  /\ pc[i] = "hydrated"
  /\ ~cfg.remote /\ ~cfg.local
  /\ LET f == getFeatures(stats, match[i])
         tr == trace[i] \o <<Ev("getFeatures", 0)>>
     IN  /\ features' = [features EXCEPT ![i] = f]
         /\ IF ~f.found
            THEN RaceReturn(i, ErrorResult("Keine Features gefunden"), tr)
            ELSE \E j1 \in Jitters, j2 \in Jitters, j3 \in Jitters :
                   RaceReturn(i, simpleRulePredict(match[i], f, j1, j2, j3),
                              tr \o <<Ev("rule", 0)>>)
  /\ UNCHANGED <<cfg, matches, stats, fetchedHistoryTeams, nRequests, arg, match,
                 normIn, normOut, callIn, callOut>>

NextRace ==
  \E i \in Requests :
    \/ \E a \in RaceArgs : RaceStart(i, a)
    \/ RaceTeamFetch(i)
    \/ RaceHeadToHead(i)
    \/ RaceResume(i)

SpecRace == InitRace /\ [][NextRace]_vars

\* ------------------------------------------------------------------------
\* Properties
\* ------------------------------------------------------------------------
Has(e) == \E i \in 1..Len(trace) : trace[i].e = e
HasBefore(e, i) == \E j \in 1..(i - 1) : trace[j].e = e
Count(e, team) == Cardinality({i \in 1..Len(trace) : trace[i] = Ev(e, team)})
LastEvent == IF Len(trace) = 0 THEN "" ELSE trace[Len(trace)].e

RemoteEvents == {"callRemoteLlama", "remoteDone", "remoteValid", "remoteWarn"}
OllamaEvents == {"callOllama", "ollamaDone", "ollamaValid", "ollamaWarn"}
TierEvents == RemoteEvents \cup OllamaEvents \cup {"rule"}
HasAny(S) == \E i \in 1..Len(trace) : trace[i].e \in S

\* Every member of a canonical prediction is present.
Complete(r) ==
  /\ r.kind = "prediction"
  /\ ~IsNullish(r.prediction)
  /\ ~IsNullish(r.explanation)
  /\ ~IsNullish(r.betting_advice.recommendation)
  /\ ~IsNullish(r.betting_advice.confidence)
  /\ ~IsNullish(r.betting_advice.reasoning)
  /\ ~IsNullish(r.probabilities.home)
  /\ ~IsNullish(r.probabilities.draw)
  /\ ~IsNullish(r.probabilities.away)
  /\ ~IsNullish(r.engine)

\* C1: the tiers are attempted one at a time in the order remote, local,
\* rule-based.  The local call is issued only after the remote call has
\* completed without a validated prediction (or the remote tier is not
\* configured), the rule-based predictor runs only after both earlier tiers
\* were skipped or failed, nothing follows a validated result, and the
\* prediction returned is the one of the tier that ended the request.
C1_TiersInOrder ==
  /\ \A i \in 1..Len(trace) :
       /\ trace[i].e = "callOllama" =>
            /\ cfg.remote => HasBefore("remoteDone", i)
            /\ ~cfg.remote => ~HasAny(RemoteEvents)
            /\ ~HasBefore("remoteValid", i)
       /\ trace[i].e = "rule" =>
            /\ cfg.remote => HasBefore("remoteDone", i) /\ ~HasBefore("remoteValid", i)
            /\ cfg.local => HasBefore("ollamaDone", i) /\ ~HasBefore("ollamaValid", i)
       /\ trace[i].e \in {"remoteValid", "ollamaValid", "rule"} =>
            i = Len(trace) /\ pc = "done"
       /\ trace[i].e = "remoteDone" => HasBefore("callRemoteLlama", i)
       /\ trace[i].e = "ollamaDone" => HasBefore("callOllama", i)
  /\ pc = "remote" => LastEvent = "callRemoteLlama" /\ ~HasAny(OllamaEvents \cup {"rule"})
  /\ pc = "ollama" => LastEvent = "callOllama" /\ ~Has("rule")
  /\ (pc = "done" /\ result.kind = "prediction") =>
       /\ LastEvent \in {"remoteValid", "ollamaValid", "rule"}
       /\ LastEvent = "ollamaValid" => result.engine = Text("ollama")
       /\ LastEvent = "rule" => result.engine = Text("rule-based")

\* C1 witness: the remote tier returned an invalid payload and the local
\* tier then produced the validated result.
C1_Witness ==
  /\ pc = "done"
  /\ Has("remoteWarn")
  /\ LastEvent = "ollamaValid"
  /\ result.kind = "prediction"

\* C2 (as claimed): with both generator tiers unconfigured a request for a
\* stored contest with stored features ends with a complete rule-based
\* prediction, never with null or a raised error.
C2_RuleBasedWhenUnconfigured ==
  (/\ pc = "done"
   /\ ~cfg.remote /\ ~cfg.local
   /\ match # NoMatch
   /\ getFeatures(stats, match).found)
    => /\ Complete(result)
       /\ result.engine = Text("rule-based")

\* C3 (as claimed): a failed backfill call, a missing provider key
\* included, never makes predictMatch raise; the request goes on to the
\* feature lookup.
C3_BackfillFailureIsEmpty ==
  (pc = "done" /\ HasAny({"fetchTeamHistory", "fetchHeadToHeadHistory"}))
    => result.kind # "raised" /\ Has("getFeatures")

\* C4: when the call of a configured tier fails or its payload does not
\* validate, predictMatch neither raises nor returns something partial: it
\* goes on to the next tier, and when no tier validated the request ends
\* with the complete rule-based prediction.
C4_TierFailureFallsThrough ==
  /\ (pc = "done" /\ HasAny(TierEvents)) => Complete(result)
  /\ (pc = "done" /\ HasAny({"remoteDone", "ollamaDone"})
        /\ ~Has("remoteValid") /\ ~Has("ollamaValid"))
       => /\ LastEvent = "rule"
          /\ result.engine = Text("rule-based")
  /\ (Has("remoteDone") /\ ~Has("remoteValid") /\ cfg.local) => Has("callOllama")
  /\ (Has("remoteDone") /\ ~Has("remoteValid") /\ ~cfg.local) => Has("rule")
  /\ (Has("ollamaDone") /\ ~Has("ollamaValid")) => Has("rule")

\* C4 witness: both tiers are configured, the remote call failed, the local
\* payload did not validate, and the rule-based prediction was returned.
C4_Witness ==
  /\ pc = "done"
  /\ cfg.remote /\ cfg.local
  /\ Has("remoteDone") /\ ~Has("remoteWarn") /\ Has("ollamaWarn")
  /\ result.kind = "prediction" /\ result.engine = Text("rule-based")

\* C5: a tier without configuration is skipped entirely: no call, no
\* validation and no warning for it.
C5_UnconfiguredTierSkipped ==
  /\ ~cfg.remote => pc # "remote" /\ ~HasAny(RemoteEvents)
  /\ ~cfg.local => pc # "ollama" /\ ~HasAny(OllamaEvents)

\* C5 witness: the remote tier is configured and failed, the local tier is
\* not configured, and the request went straight on to the rule-based tier.
C5_Witness ==
  /\ pc = "done"
  /\ cfg.remote /\ ~cfg.local
  /\ Has("remoteDone") /\ LastEvent = "rule"

\* C6 (as claimed): for a non-numeric id, an id without a stored match, or a
\* match without stored features, predictMatch returns an error object
\* instead of raising, and no tier is invoked.
C6_InputErrorsAreResults ==
  (/\ pc = "done"
   /\ \/ arg.t = "text"
      \/ match = NoMatch
      \/ ~getFeatures(stats, match).found)
    => result.kind = "error" /\ ~HasAny(TierEvents)

ParsesFinite(x) == toNumber(x) # Null /\ IsFinite(toNumber(x))

\* C7 (as claimed): the normalizer returns null whenever one of the three
\* probabilities does not parse to a finite number or their sum is not a
\* positive finite number, and never returns a non-finite probability.
C7_RejectsNonFinite ==
  (normOut # NormIdle /\ normIn.kind = "object")
    => LET p == ProbsOrEmpty(normIn.obj.probabilities)
           allFinite == ParsesFinite(p.home) /\ ParsesFinite(p.draw)
                          /\ ParsesFinite(p.away)
           total == Add(Add(toNumber(p.home), toNumber(p.draw)), toNumber(p.away))
       IN  /\ ~allFinite => normOut.kind = "null"
           /\ (allFinite /\ ~(IsFinite(total) /\ total.v > 0)) => normOut.kind = "null"
           /\ normOut.kind = "prediction" =>
                /\ IsFinite(normOut.probabilities.home)
                /\ IsFinite(normOut.probabilities.draw)
                /\ IsFinite(normOut.probabilities.away)

\* C8 (as claimed): for a finite, not-all-zero triple the normalized triple
\* sums to 1.0 within 0.01 and each component lies in [0, 1].
C8_NormalizedTriple ==
  (/\ normOut # NormIdle
   /\ normOut.kind = "prediction"
   /\ normIn.obj.probabilities.home.t = "num"
   /\ normIn.obj.probabilities.draw.t = "num"
   /\ normIn.obj.probabilities.away.t = "num")
    => LET o == normOut.probabilities
           sum == o.home.v + o.draw.v + o.away.v
       IN  /\ IsFinite(o.home) /\ IsFinite(o.draw) /\ IsFinite(o.away)
           /\ sum >= 990 /\ sum <= 1010
           /\ \A x \in {o.home, o.draw, o.away} : x.v >= 0 /\ x.v <= 1000

\* C9 (as claimed): every prediction predictMatch returns has a confidence
\* in [0, 1].
C9_ConfidenceInRange ==
  (pc = "done" /\ result.kind = "prediction")
    => /\ IsFinite(result.betting_advice.confidence)
       /\ result.betting_advice.confidence.v >= 0
       /\ result.betting_advice.confidence.v <= 1000

\* C10 (as claimed): within one request fetchTeamHistory is never called
\* twice for the same team.
C10_OneBackfillPerTeam ==
  \A team \in 1..3 : Count("fetchTeamHistory", team) <= 1

\* C11 (as claimed): a backfill call is pending only below the threshold of
\* 3: a team backfill only while the store holds fewer than 3 usable prior
\* matches of that team, a head-to-head backfill only while it holds fewer
\* than 3 head-to-head entries and both team ids are known.
C11_BackfillOnlyBelowThreshold ==
  /\ pc \in {"home_memo", "home_sparse"} => Len(HomeRecent(matches, match)) < 3
  /\ pc \in {"away_memo", "away_sparse"} => Len(AwayRecent(matches, match)) < 3
  /\ pc = "h2h" => /\ Len(HeadToHead(matches, match)) < 3
                   /\ match.home_team_id # 0 /\ match.away_team_id # 0

\* The team backfill call that is pending is the first one this request
\* makes for its team, and the memo key of that team.
FirstCallPending ==
  /\ pc \in TeamFetchPoints
  /\ Count("fetchTeamHistory", TeamOf(pc, match)) = 1
PendingKey == buildHistoryKey(match.sport, TeamOf(pc, match))

\* C12 (as claimed): a request that starts with a team's key in the memo
\* issues no team backfill call for that team (the first call a request
\* makes for a team finds the memo as it was when the request began); a key
\* enters the memo only when a backfill for that team returned a non-empty
\* list; no key ever leaves the memo.
C12_MemoStopsBackfill ==
  [][/\ FirstCallPending' => PendingKey' \notin fetchedHistoryTeams'
     /\ fetchedHistoryTeams \subseteq fetchedHistoryTeams'
     /\ \A key \in fetchedHistoryTeams' \ fetchedHistoryTeams :
          /\ pc \in TeamFetchPoints
          /\ key = PendingKey
          /\ \E t \in 1..3 :
               /\ t = TeamOf(pc, match)
               /\ Count("fetched", t)' = Count("fetched", t) + 1
    ]_vars

\* The score of the feature record the rule-based predictor was called on.
RuleScore ==
  (callIn.features.home_form - callIn.features.away_form)
    + (callIn.features.home_goals_avg - callIn.features.away_goals_avg)

\* The outcome the claim states for a score, with the confidence as given.
RuleOutcomeIs(r, score, confidence) ==
  /\ score > 300 => /\ r.prediction = Text("Heimsieg")
                    /\ r.betting_advice.confidence = Num(confidence)
  /\ score < -300 => /\ r.prediction = Text("Auswaertssieg")
                     /\ r.betting_advice.confidence = Num(confidence)
  /\ (score >= -300 /\ score <= 300) =>
       /\ r.prediction = Text("Unentschieden")
       /\ r.betting_advice.confidence = Num(600)

\* C13 (as claimed): score > 0.3 gives the home-win label and score < -0.3
\* the away-win label, both with confidence min(0.85, 0.5 + |score|); every
\* other score, 0.3 and -0.3 included, gives the no-edge label with
\* confidence 0.6.
C13_RuleOutcome ==
  \A i \in 1..Len(callOut) :
    RuleOutcomeIs(callOut[i], RuleScore, Min(850, 500 + Abs(RuleScore)))

\* C13 (amended): as C13, with the confidence of a decisive outcome being
\* min(0.85, 0.5 + |score|) rounded to two decimals.
C13_RuleOutcomeRounded ==
  \A i \in 1..Len(callOut) :
    RuleOutcomeIs(callOut[i], RuleScore,
                  10 * ((Min(850, 500 + Abs(RuleScore)) + 5) \div 10))

\* C13 witness: a score of 0.333 gave the home-win label with confidence
\* 0.83.
C13_Witness ==
  /\ Len(callOut) > 0
  /\ RuleScore = 333
  /\ callOut[1].prediction = Text("Heimsieg")
  /\ callOut[1].betting_advice.confidence = Num(830)

\* C14: the probabilities the rule-based predictor returns are finite, each
\* in [0, 1], and sum to 1.0 within 0.01, for every feature record and
\* every jitter draw.
C14_RuleProbabilities ==
  \A i \in 1..Len(callOut) :
    LET o == callOut[i].probabilities
        sum == o.home.v + o.draw.v + o.away.v
    IN  /\ IsFinite(o.home) /\ IsFinite(o.draw) /\ IsFinite(o.away)
        /\ \A x \in {o.home, o.draw, o.away} : x.v >= 0 /\ x.v <= 1000
        /\ sum >= 990 /\ sum <= 1010

\* C14 witness: a score of at least 2.0, where only the clamps keep pHome
\* at 0.8 and pAway at 0.1 before the division.
C14_Witness ==
  /\ Len(callOut) > 0
  /\ RuleScore >= 2000
  /\ callOut[1].probabilities.away.v > 0
  /\ callOut[1].probabilities.home.v < 1000

\* C15: two invocations on the same match and features return the same
\* outcome label, recommendation and confidence, whatever the jitter.
C15_JitterLeavesOutcome ==
  Len(callOut) = 2 =>
    /\ callOut[1].prediction = callOut[2].prediction
    /\ callOut[1].betting_advice.recommendation
         = callOut[2].betting_advice.recommendation
    /\ callOut[1].betting_advice.confidence = callOut[2].betting_advice.confidence

\* C15 witness: two invocations whose probability triples differ.
C15_Witness ==
  /\ Len(callOut) = 2
  /\ callOut[1].probabilities # callOut[2].probabilities

\* The teams of a contest with the columns their features are stored in.
Sides(m) ==
  { [team |-> m.home_team, form |-> "home_form", avg |-> "home_goals_avg"],
    [team |-> m.away_team, form |-> "away_form", avg |-> "away_goals_avg"] }

\* The stored feature record of a contest.
StoredFeatures(m) == CHOOSE s \in stats : s.match_id = m.match_id

\* The matches the claim says a team's features are computed from: same
\* sport, involving the team, strictly before the reference date and at
\* most 365 days before it, with known scores.
Qualifying(m, team) ==
  {x \in matches :
     /\ x.sport = m.sport
     /\ x.home_team = team \/ x.away_team = team
     /\ x.date # 0 /\ x.date < m.date /\ x.date >= m.date - 365
     /\ HasScores(x)}

\* The 10 most recent of them.
ClaimedWindow(m, team) ==
  {x \in Qualifying(m, team) :
     Cardinality({y \in Qualifying(m, team) : y.date > x.date}) < 10}

TeamGoals(x, team) == IF x.home_team = team THEN x.home_goals ELSE x.away_goals
OpponentGoals(x, team) == IF x.home_team = team THEN x.away_goals ELSE x.home_goals

RECURSIVE SumGoals(_, _)
SumGoals(S, team) ==
  IF S = {} THEN 0
  ELSE LET x == CHOOSE y \in S : TRUE
       IN  TeamGoals(x, team) + SumGoals(S \ {x}, team)

\* Form and scoring average of a set of scored matches.
FormOf(S, team) ==
  IF S = {} THEN 0
  ELSE (1000 * Cardinality({x \in S : TeamGoals(x, team) > OpponentGoals(x, team)}))
         \div Cardinality(S)
AverageOf(S, team) ==
  IF S = {} THEN 0
  ELSE 10 * ((200 * SumGoals(S, team) + Cardinality(S)) \div (2 * Cardinality(S)))

\* C16 (as claimed): after a run, the stored features of every dated
\* contest are those of the 10 most recent scored matches of the team, in
\* the same sport, strictly before the contest's date and at most 365 days
\* before it.
C16_FeatureWindow ==
  Len(callOut) > 0 =>
    \A m \in {x \in matches : x.date # 0} : \A side \in Sides(m) :
      /\ StoredFeatures(m)[side.form] = FormOf(ClaimedWindow(m, side.team), side.team)
      /\ StoredFeatures(m)[side.avg] = AverageOf(ClaimedWindow(m, side.team), side.team)

\* A team has no match that could count for the contest: none at all
\* besides the contest, or, for a dated contest, only matches at or after
\* its date or more than 365 days before it.
NothingInWindow(m, team) ==
  \A x \in matches :
    (x # m /\ x.sport = m.sport /\ (x.home_team = team \/ x.away_team = team))
      => /\ m.date # 0
         /\ x.date # 0
         /\ x.date >= m.date \/ x.date < m.date - 365

C18_RecomputeOverwrites ==
  /\ Len(callOut) = 2 => callOut[1] = callOut[2]
  /\ Len(callOut) > 0 =>
       \A m \in matches :
         /\ Cardinality({s \in stats : s.match_id = m.match_id}) = 1
         /\ StoredFeatures(m) \in callOut[Len(callOut)]
         /\ StoredFeatures(m) \notin callIn.before

\* C18 witness: two runs were made over a table that held a stale record
\* for the target contest, and the record is gone.
C18_Witness ==
  /\ Len(callOut) = 2
  /\ callIn.before # {}
  /\ stats \cap callIn.before = {}
  /\ \E s \in stats : s.match_id = FeatTarget.match_id

\* The lists of the context that was built.
ContextLists ==
  {callOut[1].homeTeamRecent, callOut[1].awayTeamRecent, callOut[1].headToHead}

\* C19: a context holds at most 12 entries per team and 10 head-to-head
\* entries; every entry is of the target's sport, has a date and both
\* scores, is not the target, is strictly older than the target when the
\* target has a date, and every list is ordered most recent first.
C19_ContextBounded ==
  (callIn.fn = "getMatchContext" /\ Len(callOut) = 1) =>
    /\ Len(callOut[1].homeTeamRecent) <= 12
    /\ Len(callOut[1].awayTeamRecent) <= 12
    /\ Len(callOut[1].headToHead) <= 10
    /\ \A list \in ContextLists : \A i \in 1..Len(list) :
         /\ list[i].sport = callIn.match.sport
         /\ list[i].date # 0
         /\ list[i].home_goals >= 0 /\ list[i].away_goals >= 0
         /\ list[i].match_id # callIn.match.match_id
         /\ callIn.match.date # 0 => list[i].date < callIn.match.date
         /\ \A j \in 1..Len(list) : i < j => list[i].date >= list[j].date

\* C19 witness: the store held more scored earlier meetings than fit, so
\* the team lists were cut at 12 and the head-to-head list at 10.
C19_Witness ==
  /\ callIn.fn = "getMatchContext"
  /\ Len(callOut) = 1
  /\ callIn.match.date # 0
  /\ Len(callOut[1].homeTeamRecent) = 12
  /\ Len(callOut[1].headToHead) = 10
  /\ Cardinality({m \in matches : HasScores(m) /\ m.home_team \in {"A", "B"}
                     /\ m.away_team \in {"A", "B"}}) > 12

\* The raw id is below the basketball offset.
InIdRange(raw) == raw.hi < 50000

\* C20: for raw ids in [0, 5,000,000,000) a football id never equals a
\* basketball id, and two different raw ids of one sport never get the same
\* id.
C20_IdsDisjoint ==
  (/\ callIn.fn = "composeMatchId"
   /\ Len(callOut) = 2
   /\ InIdRange(callIn.a) /\ InIdRange(callIn.b))
    => /\ callIn.sportA # callIn.sportB => callOut[1] # callOut[2]
       /\ (callIn.sportA = callIn.sportB /\ callIn.a # callIn.b)
            => callOut[1] # callOut[2]

\* C20 witness: raw id 100 of football and raw id 100 of basketball were
\* composed to 100 and 5,000,000,100.
C20_Witness ==
  /\ callIn.fn = "composeMatchId"
  /\ Len(callOut) = 2
  /\ callIn.a = Wide(0, 100) /\ callIn.sportA = "football"
  /\ callIn.b = Wide(0, 100) /\ callIn.sportB = "basketball"
  /\ callOut = <<Wide(0, 100), Wide(50000, 100)>>

\* The sport whose offset range [offset, offset + 5,000,000,000) holds the id.
SportOfRange(id) ==
  IF id.q = 0 THEN "football" ELSE IF id.q = 1 THEN "basketball" ELSE ""

\* C21 (as claimed): resolving a contest id returns either nothing or a
\* record of the sport whose offset range contains the id; in particular
\* 5,000,000,100 never resolves to the football record with id 100.
C21_ResolveWithinRange ==
  (callIn.fn = "getMatchRecord" /\ Len(callOut) = 1 /\ callOut[1] # NoMatch)
    => /\ callOut[1].sport = SportOfRange(callIn.id)
       /\ callOut[1].match_id = callIn.id

\* Of the window calcTeamStats kept for the call: the number of entries
\* with both scores (games), the wins and draws of the team among them, and
\* the team's total score.
TallyOf(kept, team) ==
  LET scored == {kept[i] : i \in {j \in 1..Len(kept) : HasScores(kept[j])}}
  IN  [games |-> Cardinality(scored),
       wins |-> Cardinality({x \in scored :
                               TeamGoals(x, team) > OpponentGoals(x, team)}),
       draws |-> Cardinality({x \in scored :
                                TeamGoals(x, team) = OpponentGoals(x, team)}),
       total |-> SumGoals(scored, team)]

CallTally ==
  TallyOf(relevant(sportMatches(matches, "football"), callIn.teamName,
                   callIn.currentDate, windowSize), callIn.teamName)

\* What the claim says of the form: wins / max(games, 1), in thousandths,
\* between 0 and 1, with wins <= games.
FormAsClaimed(out, tally) ==
  /\ out.form = (1000 * tally.wins) \div Max(tally.games, 1)
  /\ out.form >= 0 /\ out.form <= 1000
  /\ tally.wins <= tally.games

\* C22 (as claimed): for a team with at least one qualifying match the form
\* is wins / max(games, 1), and the scoring average is exactly the team's
\* total score divided by games.
C22_FormAndAverage ==
  (callIn.fn = "calcTeamStats" /\ Len(callOut) = 1) =>
    LET tally == CallTally
    IN  tally.games >= 1 =>
          /\ FormAsClaimed(callOut[1], tally)
          /\ callOut[1].avgGoalsFor * tally.games = 1000 * tally.total

\* C22 (amended): as C22, with the scoring average being the team's total
\* score divided by games rounded to two decimals.
C22_FormAndRoundedAverage ==
  (callIn.fn = "calcTeamStats" /\ Len(callOut) = 1) =>
    LET tally == CallTally
    IN  tally.games >= 1 =>
          /\ FormAsClaimed(callOut[1], tally)
          /\ callOut[1].avgGoalsFor
               = 10 * ((200 * tally.total + tally.games) \div (2 * tally.games))
          /\ 2 * Abs(callOut[1].avgGoalsFor * tally.games - 1000 * tally.total)
               <= 10 * tally.games

\* C22 witness: a window with wins, a draw and a loss whose average is not
\* a multiple of 0.01: the form is below 1 and the average was rounded.
C22_Witness ==
  /\ callIn.fn = "calcTeamStats" /\ Len(callOut) = 1
  /\ LET tally == CallTally
     IN  /\ tally.games >= 3 /\ tally.wins >= 1 /\ tally.draws >= 1
         /\ tally.wins + tally.draws < tally.games
         /\ callOut[1].form > 0 /\ callOut[1].form < 1000
         /\ callOut[1].avgGoalsFor * tally.games # 1000 * tally.total

\* C23 (as claimed): a call without a contest date computes the features
\* with the day of the call as reference date: from the kept matches that
\* are strictly before that day and at most 365 days before it.
C23_NowIsReference ==
  (/\ callIn.fn = "calcTeamStats" /\ Len(callOut) = 1
   /\ callIn.currentDate = 0 /\ callIn.teamName # "") =>
    LET tally == TallyOf(relevant(sportMatches(matches, "football"),
                                  callIn.teamName, callIn.now, windowSize),
                         callIn.teamName)
    IN  /\ callOut[1].form = (1000 * tally.wins) \div Max(tally.games, 1)
        /\ callOut[1].avgGoalsFor
             = IF tally.games = 0 THEN 0
               ELSE 10 * ((200 * tally.total + tally.games) \div (2 * tally.games))

\* The candidates of a structured payload in the order of the claim: the
\* nested text fields, then the entries of the candidate arrays.
Candidates(raw) == raw.texts \o ArrayEntries(raw.arrays)

\* The candidate holds a valid prediction structure.
HoldsPrediction(candidate) ==
  candidate.kind \in {"text", "object"}
    /\ tierYield(candidate, Id(0, 100)).kind = "prediction"

\* C24 (as claimed): when one of the candidates of a payload holds a valid
\* prediction structure, the tier yields the prediction of the first such
\* candidate, whatever the candidates before it parsed to.
C24_FirstValidCandidate ==
  (callIn.fn = "tier" /\ Len(callOut) = 1) =>
    LET cands == Candidates(callIn.raw)
        valid == {i \in 1..Len(cands) : HoldsPrediction(cands[i])}
    IN  valid # {} =>
          LET first == CHOOSE i \in valid : \A j \in valid : i <= j
          IN  callOut[1] = tierYield(cands[first], Id(0, 100))

\* The number of calls of one kind the running invocation has issued.
Calls(e) == Cardinality({i \in 1..Len(trace) : trace[i].e = e})

Suspended == pc \notin {"idle", "done"}

\* C26 (as claimed): every invocation that is suspended at an outbound call
\* eventually returns a prediction or an error object.
C26_EventuallyReturns ==
  [](Suspended => <>(pc = "done" /\ result.kind \in {"prediction", "error"}))

\* Every suspended invocation eventually ends, by returning or by raising.
EventuallyEnds == [](Suspended => <>(pc = "done"))

\* The feature record calculateFeatures derives for a contest from a store.
DerivedFeatures(store, m) ==
  CHOOSE r \in featureRows(store) : r.match_id = m.match_id

\* C27 (as claimed): once predictMatch has read the feature record and the
\* history context of a request (both at line 77-82, on the store that its
\* backfill left), the feature record is the one derived from that store.
C27_FeaturesAfterBackfill ==
  (/\ callIn = Respond("predict")
   /\ pc \in {"ollama", "done"}
   /\ features.found)
    => LET derived == DerivedFeatures(matches, match)
       IN  /\ features.home_form = derived.home_form
           /\ features.away_form = derived.away_form
           /\ features.home_goals_avg = derived.home_goals_avg
           /\ features.away_goals_avg = derived.away_goals_avg

\* C28 (as claimed): the match_id of every prediction predictMatch returns
\* is the id of the contest record resolved for the request, never a value
\* taken from the generator payload.
C28_ResultMatchId ==
  (pc = "done" /\ result.kind = "prediction")
    => /\ ~result.match_id.declared
       /\ result.match_id.id = match.match_id

\* C29 (as claimed): a returned prediction carries engine = 'rule-based'
\* only if the rule-based predictor produced it, and engine = 'ollama' only
\* if the local generator tier produced it.
C29_EngineIdentifiesTier ==
  (pc = "done" /\ result.kind = "prediction")
    => /\ result.engine = Text("rule-based") => LastEvent = "rule"
       /\ result.engine = Text("ollama") => LastEvent = "ollamaValid"

\* The engine names the remote tier can return for the payloads a
\* generator sends: the one the payload declares, else 'llama'.
RemoteEngines ==
  {remoteEngine(normalizeIncomingPayload(raw)) : raw \in GeneratorPayloads}

\* C29 (amended): a prediction of the rule-based predictor carries engine =
\* 'rule-based' and one of the local generator tier engine = 'ollama',
\* whatever the payload declares; a prediction of the remote tier carries
\* the engine name its payload declares, or 'llama'.  So 'rule-based' and
\* 'ollama' come from their own tier or from a remote payload that declares
\* them.
C29_EngineByTier ==
  (pc = "done" /\ result.kind = "prediction")
    => /\ LastEvent = "rule" => result.engine = Text("rule-based")
       /\ LastEvent = "ollamaValid" => result.engine = Text("ollama")
       /\ LastEvent = "remoteValid" => result.engine \in RemoteEngines
       /\ result.engine = Text("rule-based") => LastEvent \in {"rule", "remoteValid"}
       /\ result.engine = Text("ollama") => LastEvent \in {"ollamaValid", "remoteValid"}

\* C29 witness: the remote tier returned a prediction whose payload
\* declares engine 'rule-based'.
C29_Witness ==
  /\ pc = "done"
  /\ result.kind = "prediction"
  /\ LastEvent = "remoteValid"
  /\ result.engine = Text("rule-based")

\* Request i has passed the memo check of lines 330 / 340 and is suspended
\* at the backfill call that the check guards; the key it has checked.
AtGuardedBackfill(i) == pc[i] \in {"home_memo", "away_memo"}
CheckedKey(i) == buildHistoryKey(match[i].sport, TeamOf(pc[i], match[i]))

\* C30 (as claimed): between a request's check of the memo for a key and
\* its recording of that key no other request checks the same key, so two
\* interleaved requests are never both suspended at the memo-guarded
\* backfill of the same (sport, teamId) key.
C30_MemoCheckAtomic ==
  \A i \in Requests, j \in Requests :
    (i # j /\ AtGuardedBackfill(i) /\ AtGuardedBackfill(j))
      => CheckedKey(i) # CheckedKey(j)

====
